---- MODULE Spec2Model ----
(***************************************************************************)
(* Task orchestration of the package download platform.                   *)
(*                                                                         *)
(* One task (one task id, created by TaskManager.create_task) is followed  *)
(* through the HTTP handlers of routers/tasks.py and the background units  *)
(* of work they schedule.  The handlers and the background coroutines run  *)
(* on one asyncio event loop: the code between two awaits is atomic, and   *)
(* another coroutine can run at every await that may suspend (a subprocess *)
(* call, a websocket send inside ws_manager.broadcast).                    *)
(*                                                                         *)
(* Spec follows that one task with its triggers.  StoreSpec follows the    *)
(* task manager itself over several tasks (create, get, update, list,      *)
(* delete, the expiry sweep, a process restart) with no trigger running;   *)
(* the variables of the other view stay at their initial values.           *)
(* HubSpec follows ws_manager for the websockets of one task and the       *)
(* broadcasts of its background units of work, AdmitSpec the triggers of   *)
(* MAX_CONCURRENT_TASKS + 1 tasks, and SweepSpec an npm task whose         *)
(* download runs while the hourly expiry sweep comes round.  ParserSpec     *)
(* applies the requirements parser of the PyPI pipeline to a file,         *)
(* CrashSpec lets the process die inside the save of an update, and        *)
(* RestartSpec restarts the process under a parse trigger.                 *)
(***************************************************************************)
EXTENDS Integers, Sequences, FiniteSets, TLC

\* ------------------------------------------------------------------ bounds
\* background units of work that may be scheduled for the task
MaxTriggers == 2
\* directories the install step leaves in node_modules
MaxPkgs == 2
\* requirement lines (neither blank nor comment) over all requirements files
MaxReqLines == 1
\* requirements*.txt files in the upload directory
MaxReqFiles == 1
\* entries of options.platforms
MaxPlatforms == 1
\* "Saved"/"Successfully downloaded" lines one pip process prints
MaxOut == 2
\* task ids uuid4 hands out (StoreSpec)
MaxTasks == 2
\* calls made to the task manager (StoreSpec)
MaxCalls == 3
\* hours the clock runs, in steps of ClockStep
MaxClock == 24
\* websockets that connect to the task's channel (HubSpec)
MaxConns == 3
\* events published on the task's channel (HubSpec)
MaxEvents == 2
\* lines of the requirements file (ParserSpec)
MaxFileLines == 3

Trig == 1..MaxTriggers

\* ----------------------------------------------------------------- schemas
Created == "created"
Parsing == "parsing"
Parsed == "parsed"
Downloading == "downloading"
Packing == "packing"
Completed == "completed"
Failed == "failed"

TaskStatus == {Created, Parsing, Parsed, Downloading, Packing, Completed, Failed}

\* DownloadProgress(): total, completed, failed are 0, failed_packages is []
DownloadProgress ==
  [total |-> 0, completed |-> 0, failed |-> 0, failed_packages |-> <<>>]

\* TaskInfo as create_task builds it: status CREATED, every optional field unset
\* (task_id, files, created_at and options never change; options is kept apart)
TaskInfo ==
  [status |-> Created,
   npm_dependencies |-> "None",
   pypi_dependencies |-> 0,
   npm_progress |-> DownloadProgress,
   pypi_progress |-> DownloadProgress,
   archive_url |-> "None",
   archive_size |-> 0,
   error |-> "None",
   completed_at |-> "None"]

\* sizes the packager may report for the archive it wrote (st_size of the zip file)
ArchiveSizes == {4096}

\* package names the "Could not find" pattern extracts from pip's stderr
FailLists == {<<>>, <<"x">>}

\* ------------------------------------------------------------ config.py
MAX_CONCURRENT_TASKS == 5
TASK_EXPIRE_HOURS == 24
MAX_UPLOAD_SIZE == 1024 * 1024
ALLOWED_EXTENSIONS == {".json", ".txt", ".toml", ".cfg", ".lock"}

\* the clock moves in steps of the expiry age
ClockStep == TASK_EXPIRE_HOURS

VARIABLES
  options,  \* task.options (DownloadOptions), fixed at creation
  task,     \* the TaskInfo object the store holds for the task (shared with the coroutines)
  cached,   \* task_id in task_manager.tasks
  disk,     \* the task directory
  trig,     \* the background units of work, with their locals
  running,  \* the coroutine that holds the event loop inside a synchronous section (0: none)
  resp,     \* the status code of the last HTTP response
  overlapped, \* history: a trigger was accepted while another one was in flight
  tasks,    \* task_manager.tasks: the cached TaskInfo objects, in insertion order
  base,     \* TASKS_BASE_DIR: the directory of every task id
  saved,    \* history: the TaskInfo last persisted for every task id
  clock,    \* datetime.now(), in hours
  issued,   \* the ids uuid4 has handed out
  calls,    \* the calls made so far
  ret,      \* what the last call returned
  conns,    \* ws_manager.active_connections[task_id]: the websockets, in the order they connected
  sock,     \* the state of every websocket
  pub,      \* the broadcast call of every background unit of work, with its locals
  inbox,    \* history: the events every websocket was sent, in the order of the sends
  published, \* history: the number of broadcast calls so far
  work,     \* status and trigger of every task of the admission view
  reqFile,  \* the lines of requirements.txt, each one the list of its characters
  reqPc,    \* the position of the call of PyPIDownloader.parse_dependencies
  packages  \* the list parse_dependencies returned

\* the one-task view and the task manager view
taskVars == <<options, task, cached, disk, trig, running, resp, overlapped>>
storeVars == <<tasks, base, saved, clock, issued, calls, ret>>
hubVars == <<conns, sock, pub, inbox, published>>
parserVars == <<reqFile, reqPc, packages>>
serverVars == <<hubVars, work, parserVars>>
vars == <<options, task, cached, disk, trig, running, resp, overlapped,
          tasks, base, saved, clock, issued, calls, ret,
          conns, sock, pub, inbox, published, work,
          reqFile, reqPc, packages>>

\* ------------------------------------------------------------ task manager
\* get_task: the cached record, else the record loaded from task_info.json
TaskFound == cached \/ disk.info

\* a variant of the save that writes the file without a cached record
SaveTaskInfoUncached(d) == [d EXCEPT !.dir = TRUE, !.info = TRUE]

\* _save_task_info: (re)creates the task directory and writes task_info.json
SaveTaskInfo(d) == IF cached THEN [d EXCEPT !.dir = TRUE, !.info = TRUE] ELSE d

\* update_task: setattr for every given field the record has, then save
UpdateTask(t, kw) ==
  IF TaskFound
    THEN [k \in DOMAIN t |-> IF k \in DOMAIN kw THEN kw[k] ELSE t[k]]
    ELSE t

\* progress.<field> is assigned in place: progress is the record's own object.
\* Once the task is deleted the object is garbage that only the coroutine still
\* holds; `task` then stands for "no record" and is left alone.
InPlace(t) == IF cached THEN t ELSE task

\* delete_task: rmtree of the task directory
DeletedDisk ==
  [dir |-> FALSE, info |-> FALSE, pkg |-> FALSE, lock |-> FALSE, req |-> 0,
   lines |-> 0, pypidir |-> FALSE, tmp |-> FALSE, archive |-> FALSE]

\* ------------------------------------------------------------------ locals
\* kind, pc and the loop variables are the coroutine's position; written,
\* lastEvent, sawTask, raised, batchFailed, toolFailed (an external tool of
\* resolve exited non-zero) and erred (an error event was published) record
\* what it has done
Idle ==
  [kind |-> "none", pc |-> "idle", n |-> 0, i |-> 0, plat |-> 0,
   cur |-> FALSE, out |-> 0, size |-> 0, exc |-> "None",
   written |-> <<>>, lastEvent |-> [type |-> "None", src |-> "None"], sawTask |-> FALSE, raised |-> FALSE,
   batchFailed |-> FALSE, toolFailed |-> FALSE, erred |-> FALSE]

\* the locals of tr with the fields of r overridden
With(tr, r) ==
  [trig EXCEPT ![tr] = [k \in DOMAIN trig[tr] |-> IF k \in DOMAIN r THEN r[k] ELSE trig[tr][k]]]

\* the coroutine returns: its frame is dropped
Return == [pc |-> "done", n |-> 0, i |-> 0, plat |-> 0, cur |-> FALSE, out |-> 0,
           size |-> 0, exc |-> "None"]

\* a status written by tr through update_task (recorded when the record was found)
Wrote(tr, s) == IF TaskFound THEN Append(trig[tr].written, s) ELSE trig[tr].written

InFlight == {tr \in Trig : trig[tr].kind # "none" /\ trig[tr].pc # "done"}
FreeSlots == {tr \in Trig : trig[tr].kind = "none"}
NextSlot == CHOOSE tr \in FreeSlots : \A o \in FreeSlots : tr <= o

\* ------------------------------------------------------- the store's data
Ids == 1..MaxTasks

\* Optional[T]: None, or a value
None == <<>>
Some(v) == <<v>>

\* a datetime: the hour and the microsecond (the fields in between are 0)
DateTime(h, us) == [h |-> h, us |-> us]

\* the microsecond datetime.now() reads
Micros == {0, 5}

\* a file of the task directory that does not exist, and one that json.load rejects
NoFile == [t |-> "nofile"]
Garbage == [t |-> "garbage"]

\* a task directory: task_info.json, the files in uploads/, the subdirectories
NoDir == [exists |-> FALSE, info |-> NoFile, uploads |-> {}, subdirs |-> {}]

\* DownloadOptions(): the defaults
DownloadOptions ==
  [npm |-> TRUE, pypi |-> TRUE, node_version |-> "20", python_version |-> "3.13",
   platforms |-> <<"win_amd64", "manylinux2014_x86_64">>]

\* TaskInfo(task_id=..., status=CREATED, files=..., options=..., created_at=now)
\* with every field of the schema
NewTaskInfo(id, files, opts, now) ==
  [task_id |-> id, status |-> Created, files |-> files, options |-> opts,
   npm_dependencies |-> None, pypi_dependencies |-> <<>>,
   npm_progress |-> DownloadProgress, pypi_progress |-> DownloadProgress,
   archive_url |-> None, archive_size |-> None, error |-> None,
   created_at |-> now, completed_at |-> None]

\* ------------------------------------------------- task_info.json, written
\* JSON values
JNull == [t |-> "null"]
JStr(s) == [t |-> "string", v |-> s]
JNum(n) == [t |-> "number", v |-> n]
JBool(b) == [t |-> "bool", v |-> b]
JArr(a) == [t |-> "array", v |-> a]
JObj(o) == [t |-> "object", v |-> o]

\* a variant of isoformat that always stops at the seconds
IsoFormatSeconds(dt) == <<dt.h>>

\* datetime.isoformat(): "...Thh:00:00", followed by ".ffffff" only when the
\* microsecond is not 0 (the text is kept as its list of numbers)
IsoFormat(dt) == IF dt.us = 0 THEN <<dt.h>> ELSE <<dt.h, dt.us>>

\* model_dump(mode="json") of the nested models
DumpProgress(p) ==
  JObj([total |-> JNum(p.total), completed |-> JNum(p.completed), failed |-> JNum(p.failed),
        failed_packages |-> JArr([k \in 1..Len(p.failed_packages) |-> JStr(p.failed_packages[k])])])

RECURSIVE DumpNode(_)
DumpNode(n) ==
  JObj([name |-> JStr(n.name), version |-> JStr(n.version),
        children |-> JArr([k \in 1..Len(n.children) |-> DumpNode(n.children[k])])])

DumpPackage(q) ==
  JObj([name |-> JStr(q.name), version |-> JStr(q.version),
        size |-> IF q.size = None THEN JNull ELSE JNum(q.size[1])])

DumpOptions(o) ==
  JObj([npm |-> JBool(o.npm), pypi |-> JBool(o.pypi), node_version |-> JStr(o.node_version),
        python_version |-> JStr(o.python_version),
        platforms |-> JArr([k \in 1..Len(o.platforms) |-> JStr(o.platforms[k])])])

\* task.model_dump(mode="json"): the enum by its value, a datetime by its
\* isoformat, None by null
ModelDump(t) ==
  JObj([task_id |-> JStr(t.task_id),
        status |-> JStr(t.status),
        files |-> JArr([k \in 1..Len(t.files) |-> JStr(t.files[k])]),
        options |-> DumpOptions(t.options),
        npm_dependencies |-> IF t.npm_dependencies = None THEN JNull
                             ELSE DumpNode(t.npm_dependencies[1]),
        pypi_dependencies |-> JArr([k \in 1..Len(t.pypi_dependencies) |->
                                      DumpPackage(t.pypi_dependencies[k])]),
        npm_progress |-> DumpProgress(t.npm_progress),
        pypi_progress |-> DumpProgress(t.pypi_progress),
        archive_url |-> IF t.archive_url = None THEN JNull ELSE JStr(t.archive_url[1]),
        archive_size |-> IF t.archive_size = None THEN JNull ELSE JNum(t.archive_size[1]),
        error |-> IF t.error = None THEN JNull ELSE JStr(t.error[1]),
        created_at |-> JStr(IsoFormat(t.created_at)),
        completed_at |-> IF t.completed_at = None THEN JNull
                         ELSE JStr(IsoFormat(t.completed_at[1]))])

\* -------------------------------------------------- task_info.json, read
\* datetime.fromisoformat / pydantic's datetime parser
FromIsoFormat(s) == DateTime(s[1], IF Len(s) > 1 THEN s[2] ELSE 0)

StrOf(j) == j.v

\* the list of a JSON array of strings
Listed(j) == [k \in 1..Len(j.v) |-> StrOf(j.v[k])]

ParseProgress(j) ==
  [total |-> j.v.total.v, completed |-> j.v.completed.v, failed |-> j.v.failed.v,
   failed_packages |-> Listed(j.v.failed_packages)]

RECURSIVE ParseNode(_)
ParseNode(j) ==
  [name |-> j.v.name.v, version |-> j.v.version.v,
   children |-> [k \in 1..Len(j.v.children.v) |-> ParseNode(j.v.children.v[k])]]

ParsePackage(j) ==
  [name |-> j.v.name.v, version |-> j.v.version.v,
   size |-> IF j.v.size.t = "null" THEN None ELSE Some(j.v.size.v)]

ParseOptions(j) ==
  [npm |-> j.v.npm.v, pypi |-> j.v.pypi.v, node_version |-> j.v.node_version.v,
   python_version |-> j.v.python_version.v, platforms |-> Listed(j.v.platforms)]

\* TaskInfo(**data)
ParseTaskInfo(j) ==
  [task_id |-> j.v.task_id.v,
   status |-> j.v.status.v,
   files |-> Listed(j.v.files),
   options |-> ParseOptions(j.v.options),
   npm_dependencies |-> IF j.v.npm_dependencies.t = "null" THEN None
                        ELSE Some(ParseNode(j.v.npm_dependencies)),
   pypi_dependencies |-> [k \in 1..Len(j.v.pypi_dependencies.v) |-> ParsePackage(j.v.pypi_dependencies.v[k])],
   npm_progress |-> ParseProgress(j.v.npm_progress),
   pypi_progress |-> ParseProgress(j.v.pypi_progress),
   archive_url |-> IF j.v.archive_url.t = "null" THEN None ELSE Some(j.v.archive_url.v),
   archive_size |-> IF j.v.archive_size.t = "null" THEN None ELSE Some(j.v.archive_size.v),
   error |-> IF j.v.error.t = "null" THEN None ELSE Some(j.v.error.v),
   created_at |-> FromIsoFormat(j.v.created_at.v),
   completed_at |-> IF j.v.completed_at.t = "null" THEN None
                    ELSE Some(FromIsoFormat(j.v.completed_at.v))]

\* json.load and TaskInfo(**data) inside the try of _load_task_info: None when
\* there is no file, when it is no JSON, or when the status is no TaskStatus
LoadTaskInfo(file) ==
  IF file.t # "object" THEN None
  ELSE IF file.v.status.v \notin TaskStatus THEN None
  ELSE Some(ParseTaskInfo(file))

\* ------------------------------------------- the task manager, over all ids
\* a < b on datetimes
Before(a, b) == a.h < b.h \/ (a.h = b.h /\ a.us < b.us)

\* the index of id's record in the cache, 0 when it is not cached
Position(ts, id) ==
  IF \E k \in 1..Len(ts) : ts[k].task_id = id
    THEN CHOOSE k \in 1..Len(ts) : ts[k].task_id = id
    ELSE 0

\* self.tasks[task_id] = task
CachePut(ts, t) ==
  IF Position(ts, t.task_id) = 0 THEN Append(ts, t)
  ELSE [ts EXCEPT ![Position(ts, t.task_id)] = t]

\* del self.tasks[task_id]
CacheDrop(ts, id) == SelectSeq(ts, LAMBDA t : t.task_id # id)

\* the cache, the directories and the history as one value
Store == [tasks |-> tasks, base |-> base, saved |-> saved]

\* _load_task_info: the record of task_info.json is put into the cache
StoreLoad(st, id) ==
  LET r == LoadTaskInfo(st.base[id].info)
  IN IF r = None THEN st ELSE [st EXCEPT !.tasks = CachePut(@, r[1])]

\* get_task: the cache, after a load when the id is not cached
StoreGet(st, id) == IF Position(st.tasks, id) = 0 THEN StoreLoad(st, id) ELSE st

\* self.tasks.get(task_id)
Lookup(st, id) ==
  IF Position(st.tasks, id) = 0 THEN None ELSE Some(st.tasks[Position(st.tasks, id)])

\* _save_task_info: nothing without a cached record; else mkdir(parents=True)
\* and task_info.json is written
StoreSave(st, id) ==
  IF Position(st.tasks, id) = 0 THEN st
  ELSE LET t == st.tasks[Position(st.tasks, id)]
       IN [st EXCEPT !.base[id].exists = TRUE,
                     !.base[id].info = ModelDump(t),
                     !.saved[id] = Some(t)]

\* setattr(task, key, value) for every key the record has
SetAttrs(t, kw) == [k \in DOMAIN t |-> IF k \in DOMAIN kw THEN kw[k] ELSE t[k]]

\* a variant of update_task that leaves task_info.json as it was
StoreUpdateUnsaved(st, id, kw) ==
  LET got == StoreGet(st, id)
      pos == Position(got.tasks, id)
  IN IF pos = 0 THEN got
     ELSE [got EXCEPT !.tasks[pos] = SetAttrs(@, kw)]

\* update_task
StoreUpdate(st, id, kw) ==
  LET got == StoreGet(st, id)
      pos == Position(got.tasks, id)
  IN IF pos = 0 THEN got
     ELSE StoreSave([got EXCEPT !.tasks[pos] = SetAttrs(@, kw)], id)

\* a variant of delete_task that forgets the cached record
StoreDeleteDirOnly(st, id) == [st EXCEPT !.base[id] = NoDir, !.saved[id] = None]

\* delete_task: rmtree of the directory if it exists, del of the cached record
\* if there is one
StoreDelete(st, id) ==
  [st EXCEPT !.base[id] = NoDir, !.saved[id] = None, !.tasks = CacheDrop(@, id)]

\* a variant of create_task that makes uploads/ only
StoreCreateUploadsOnly(st, id, files, opts, now) ==
  LET dir == [exists |-> TRUE, info |-> NoFile, uploads |-> {}, subdirs |-> {"uploads"}]
  IN StoreSave([st EXCEPT !.base[id] = dir,
                          !.tasks = CachePut(@, NewTaskInfo(id, files, opts, now))], id)

\* create_task: the record, the directory tree, the cache entry, the file
StoreCreate(st, id, files, opts, now) ==
  LET dir == [exists |-> TRUE, info |-> NoFile, uploads |-> {},
              subdirs |-> {"uploads", "npm-packages", "python-packages"}]
  IN StoreSave([st EXCEPT !.base[id] = dir,
                          !.tasks = CachePut(@, NewTaskInfo(id, files, opts, now))], id)

\* list.sort(key=created_at, reverse=True): stable, so x goes behind the
\* elements that are not older than x
RECURSIVE InsertDesc(_, _)
InsertDesc(sorted, x) ==
  IF sorted = <<>> THEN <<x>>
  ELSE IF Before(Head(sorted).created_at, x.created_at)
    THEN <<x>> \o sorted
    ELSE <<Head(sorted)>> \o InsertDesc(Tail(sorted), x)

RECURSIVE SortDesc(_)
SortDesc(ts) ==
  IF ts = <<>> THEN <<>>
  ELSE InsertDesc(SortDesc(SubSeq(ts, 1, Len(ts) - 1)), ts[Len(ts)])

\* seq[start:end] of Python: a negative index counts from the end, both are
\* clamped to the list
Slice(seq, start, end) ==
  LET n == Len(seq)
      Clamp(i) == IF i < 0 THEN (IF i + n < 0 THEN 0 ELSE i + n) ELSE (IF i > n THEN n ELSE i)
  IN SubSeq(seq, Clamp(start) + 1, Clamp(end))

\* a variant of list_tasks that leaves the tasks in the order of the cache
StoreListUnsorted(ts, page, size) ==
  LET start == (page - 1) * size
      end == start + size
  IN [tasks |-> Slice(ts, start, end), total |-> Len(ts)]

\* list_tasks
StoreList(ts, page, size) ==
  LET all_tasks == SortDesc(ts)
      start == (page - 1) * size
      end == start + size
  IN [tasks |-> Slice(all_tasks, start, end), total |-> Len(all_tasks)]

\* a variant of the expiry test that never finds a task expired
ExpiredNever(created_at, now) == FALSE

\* created_at < datetime.now() - timedelta(hours=TASK_EXPIRE_HOURS)
Expired(created_at, now) == Before(created_at, DateTime(now.h - TASK_EXPIRE_HOURS, now.us))

\* cleanup_expired_tasks, for the directories todo: one without task_info.json
\* or with one that does not load is skipped
RECURSIVE StoreCleanup(_, _, _)
StoreCleanup(st, todo, now) ==
  IF todo = {} THEN st
  ELSE LET id == CHOOSE d \in todo : TRUE
           info == st.base[id].info
           next == IF st.base[id].exists /\ info.t = "object"
                      /\ Expired(FromIsoFormat(info.v.created_at.v), now)
                     THEN StoreDelete(st, info.v.task_id.v)
                     ELSE st
       IN StoreCleanup(next, todo \ {id}, now)

\* the task manager's variables while the one task of Spec is followed
StoreAtRest ==
  /\ tasks = <<>>
  /\ base = [id \in Ids |-> NoDir]
  /\ saved = [id \in Ids |-> None]
  /\ clock = 0
  /\ issued = 0
  /\ calls = 0
  /\ ret = [op |-> "none"]

\* ------------------------------------------------ the hub's data at rest
Conn == 1..MaxConns
TaskIds == 1..(MAX_CONCURRENT_TASKS + 1)

\* the locals of a unit of work that is not inside broadcast
Quiet == [pc |-> "idle", ev |-> 0, idx |-> 0, target |-> 0, disconnected |-> <<>>, audience |-> {}]

\* a task of the admission view right after create_task
Fresh == [status |-> Created, busy |-> "none"]

\* ConnectionManager(): no connection; no broadcast under way
HubAtRest ==
  /\ conns = <<>>
  /\ sock = [c \in Conn |-> "new"]
  /\ pub = [p \in Trig |-> Quiet]
  /\ inbox = [c \in Conn |-> <<>>]
  /\ published = 0

\* no call of the requirements parser
ParserAtRest ==
  /\ reqFile = <<>>
  /\ reqPc = "ready"
  /\ packages = <<>>

\* the hub, the admission view and the parser while another view is followed
ServerAtRest ==
  /\ HubAtRest
  /\ work = [id \in TaskIds |-> Fresh]
  /\ ParserAtRest

\* ------------------------------------------------------------------- Init
\* the task right after create_task and the upload of its manifests
Init ==
  /\ \E npm \in BOOLEAN, pypi \in BOOLEAN, np \in 0..MaxPlatforms,
        pkg \in BOOLEAN, req \in 0..MaxReqFiles, lines \in 0..MaxReqLines :
       \* the manifests of an ecosystem that is switched off are never looked at
       /\ pkg => npm
       /\ req > 0 => pypi
       /\ lines > 0 => req > 0
       /\ np > 0 => req > 0
       /\ options = [npm |-> npm, pypi |-> pypi, platforms |-> np]
       /\ disk = [dir |-> TRUE, info |-> TRUE, pkg |-> pkg, lock |-> FALSE, req |-> req,
                  lines |-> lines, pypidir |-> TRUE, tmp |-> FALSE, archive |-> FALSE]
  /\ task = TaskInfo
  /\ cached = TRUE
  /\ trig = [tr \in Trig |-> Idle]
  /\ running = 0
  /\ resp = 200
  /\ overlapped = FALSE
  /\ StoreAtRest
  /\ ServerAtRest

\* ---------------------------------------------------------------- handlers
\* parse_task: if task.status != TaskStatus.CREATED -> 400
\* a variant of the parse guard that also lets a parsed task be parsed again
ParseAcceptsParsed(s) == s \in {Created, Parsed}

ParseAccepts(s) == s = Created

\* start_download: if task.status not in [CREATED, PARSED] -> 400
DownloadAccepts(s) == s \in {Created, Parsed}

\* background_tasks.add_task(fn, task_id): the work runs after the response is sent
Schedule(kind) ==
  /\ FreeSlots # {}
  /\ trig' = With(NextSlot, [kind |-> kind, pc |-> "queued"])
  /\ overlapped' = (overlapped \/ InFlight # {})

ParseRequest ==
  /\ running = 0
  /\ IF ~TaskFound
       THEN resp' = 404 /\ UNCHANGED <<trig, overlapped>>
       ELSE IF ~ParseAccepts(task.status)
         THEN resp' = 400 /\ UNCHANGED <<trig, overlapped>>
         ELSE Schedule("parse") /\ resp' = 200
  /\ UNCHANGED <<options, task, cached, disk, running>>
  /\ UNCHANGED storeVars
  /\ UNCHANGED serverVars

DownloadRequest ==
  /\ running = 0
  /\ IF ~TaskFound
       THEN resp' = 404 /\ UNCHANGED <<trig, overlapped>>
       ELSE IF ~DownloadAccepts(task.status)
         THEN resp' = 400 /\ UNCHANGED <<trig, overlapped>>
         ELSE Schedule("download") /\ resp' = 200
  /\ UNCHANGED <<options, task, cached, disk, running>>
  /\ UNCHANGED storeVars
  /\ UNCHANGED serverVars

\* a variant of the delete handler that does not look the task up first
DeleteRequestUnchecked ==
  /\ running = 0
  /\ disk' = DeletedDisk
  /\ cached' = FALSE
  /\ task' = TaskInfo
  /\ resp' = 200
  /\ UNCHANGED <<options, trig, running, overlapped>>
  /\ UNCHANGED storeVars
  /\ UNCHANGED serverVars

\* delete_task (router and TaskManager.delete_task)
DeleteRequest ==
  /\ running = 0
  /\ IF ~TaskFound
       THEN resp' = 404 /\ UNCHANGED <<task, cached, disk>>
       ELSE /\ disk' = DeletedDisk
            /\ cached' = FALSE
            /\ task' = TaskInfo
            /\ resp' = 200
  /\ UNCHANGED <<options, trig, running, overlapped>>
  /\ UNCHANGED storeVars
  /\ UNCHANGED serverVars

\* get_task (router): the record, or 404; task_manager.get_task caches a record
\* it had to load
GetRequest ==
  /\ running = 0
  /\ resp' = IF TaskFound THEN 200 ELSE 404
  /\ cached' = TaskFound
  /\ UNCHANGED <<options, task, disk, trig, running, overlapped>>
  /\ UNCHANGED storeVars
  /\ UNCHANGED serverVars

\* get_dependencies: the tree and the package list of the record, or 404
DependenciesRequest ==
  /\ running = 0
  /\ resp' = IF TaskFound THEN 200 ELSE 404
  /\ cached' = TaskFound
  /\ UNCHANGED <<options, task, disk, trig, running, overlapped>>
  /\ UNCHANGED storeVars
  /\ UNCHANGED serverVars

\* download_archive: 404 without a record, 400 unless COMPLETED, 404 without the
\* archive file, else the file
ArchiveRequest ==
  /\ running = 0
  /\ resp' = IF ~TaskFound THEN 404
             ELSE IF task.status # Completed THEN 400
             ELSE IF ~disk.archive THEN 404
             ELSE 200
  /\ cached' = TaskFound
  /\ UNCHANGED <<options, task, disk, trig, running, overlapped>>
  /\ UNCHANGED storeVars
  /\ UNCHANGED serverVars

\* ------------------------------------------------------- orchestrator parts
\* except Exception as e: update_task(status=FAILED, error=str(e))
\* a variant of the failure update that leaves the message out
FailedFieldsNoError(msg) == [status |-> Failed]

FailedFields(msg) == [status |-> Failed, error |-> msg]

\* update_task(status=COMPLETED, archive_url=..., archive_size=..., completed_at=now())
\* a variant of the completion update that leaves the archive size out
CompletedFieldsNoSize(size) ==
  [status |-> Completed, archive_url |-> "/api/tasks/id/archive", completed_at |-> "now"]

\* a variant of the completion update that also stores a dependency tree
CompletedFieldsResolved(size) ==
  [status |-> Completed, archive_url |-> "/api/tasks/id/archive",
   archive_size |-> size, completed_at |-> "now", npm_dependencies |-> "tree"]

CompletedFields(size) ==
  [status |-> Completed, archive_url |-> "/api/tasks/id/archive",
   archive_size |-> size, completed_at |-> "now"]

\* ws_manager.broadcast(task_id, type, ...) as called from module src
Event(type, src) == [type |-> type, src |-> src]

\* the event the orchestrator publishes after its last update
SuccessEvent == Event("complete", "tasks")
FailureEvent == Event("error", "tasks")

\* a pipeline or the packager raises: its own handler publishes an error event
\* and re-raises to the orchestrator
Raise(tr, msg, src, r) ==
  trig' = With(tr, r @@ [pc |-> "except", exc |-> msg, lastEvent |-> Event("error", src), raised |-> TRUE,
                         erred |-> TRUE,
                         n |-> 0, i |-> 0, plat |-> 0, cur |-> FALSE, out |-> 0])

\* ------------------------------------------------------------ parse trigger
\* parse_dependencies_background up to the first await
ParseStart(tr) ==
  /\ running \in {0, tr}
  /\ trig[tr].kind = "parse" /\ trig[tr].pc = "queued"
  /\ IF ~TaskFound
       THEN /\ trig' = With(tr, Return)
            /\ UNCHANGED <<task, disk, running>>
       ELSE /\ task' = UpdateTask(task, [status |-> Parsing])
            /\ disk' = SaveTaskInfo(disk)
            /\ IF options.npm
                 THEN /\ trig' = With(tr, [pc |-> "p_npm", sawTask |-> TRUE, lastEvent |-> Event("status", "npm"),
                                           written |-> Wrote(tr, Parsing)])
                      /\ running' = 0
                 ELSE IF options.pypi
                   THEN /\ trig' = With(tr, [pc |-> "p_pypi", sawTask |-> TRUE, lastEvent |-> Event("status", "pypi"),
                                             written |-> Wrote(tr, Parsing)])
                        /\ running' = 0
                   ELSE /\ trig' = With(tr, [pc |-> "p_parsed", sawTask |-> TRUE,
                                             written |-> Wrote(tr, Parsing)])
                        /\ running' = tr
  /\ UNCHANGED <<options, cached, resp, overlapped>>
  /\ UNCHANGED storeVars
  /\ UNCHANGED serverVars

\* the orchestrator after npm_downloader.parse_dependencies returned `tree`
AfterNpmResolve(tr, tree, r) ==
  /\ task' = UpdateTask(task, [npm_dependencies |-> tree])
  /\ IF options.pypi
       THEN /\ trig' = With(tr, r @@ [pc |-> "p_pypi", lastEvent |-> Event("status", "pypi")])
            /\ running' = 0
       ELSE /\ trig' = With(tr, r @@ [pc |-> "p_parsed"])
            /\ running' = tr

\* NPMDownloader.parse_dependencies: the package.json and package-lock.json checks
NpmResolve(tr) ==
  /\ running \in {0, tr}
  /\ trig[tr].pc = "p_npm"
  /\ IF ~disk.pkg
       THEN AfterNpmResolve(tr, "None", <<>>) /\ disk' = SaveTaskInfo(disk)
       ELSE /\ trig' = With(tr, [pc |-> IF disk.lock THEN "p_npm_list" ELSE "p_npm_lock",
                                 lastEvent |-> Event("log", "npm")])
            /\ UNCHANGED <<task, disk, running>>
  /\ UNCHANGED <<options, cached, resp, overlapped>>
  /\ UNCHANGED storeVars
  /\ UNCHANGED serverVars

\* npm install --package-lock-only, and its return code
NpmLockGen(tr) ==
  /\ running \in {0, tr}
  /\ trig[tr].pc = "p_npm_lock"
  /\ IF ~disk.dir
       THEN Raise(tr, "FileNotFoundError", "npm", <<>>) /\ UNCHANGED disk
       ELSE \E rc \in {0, 1} :
              IF rc # 0
                THEN Raise(tr, "Failed to generate package-lock.json", "npm", [toolFailed |-> TRUE])
                     /\ UNCHANGED disk
                ELSE /\ trig' = With(tr, [pc |-> "p_npm_list", lastEvent |-> Event("log", "npm")])
                     /\ disk' = [disk EXCEPT !.lock = TRUE]
  /\ UNCHANGED <<options, task, cached, running, resp, overlapped>>
  /\ UNCHANGED storeVars
  /\ UNCHANGED serverVars

\* npm list --all --json: the tree is built from stdout, the return code is not read
NpmList(tr) ==
  /\ running \in {0, tr}
  /\ trig[tr].pc = "p_npm_list"
  /\ IF ~disk.dir
       THEN Raise(tr, "FileNotFoundError", "npm", <<>>) /\ UNCHANGED <<task, disk, running>>
       ELSE \E rc \in {0, 1}, stdout \in {"empty", "json"} :
              /\ AfterNpmResolve(tr, IF stdout = "json" THEN "tree" ELSE "None",
                                 [toolFailed |-> rc # 0])
              /\ disk' = SaveTaskInfo(disk)
  /\ UNCHANGED <<options, cached, resp, overlapped>>
  /\ UNCHANGED storeVars
  /\ UNCHANGED serverVars

\* a variant of the Python resolve step that raises when it finds no
\* requirements file
PypiResolveStrict(tr) ==
  /\ running \in {0, tr}
  /\ trig[tr].pc = "p_pypi"
  /\ IF disk.req = 0
       THEN /\ Raise(tr, "No requirements.txt", "pypi", <<>>)
            /\ UNCHANGED <<task, disk, running>>
       ELSE /\ task' = UpdateTask(task, [pypi_dependencies |-> disk.lines])
            /\ disk' = SaveTaskInfo(disk)
            /\ trig' = With(tr, [pc |-> "p_parsed", lastEvent |-> Event("log", "pypi")])
            /\ running' = tr
  /\ UNCHANGED <<options, cached, resp, overlapped>>
  /\ UNCHANGED storeVars
  /\ UNCHANGED serverVars

\* PyPIDownloader.parse_dependencies (one PackageInfo per requirement line), and
\* update_task(pypi_dependencies=...) after it returned
PypiResolve(tr) ==
  /\ running \in {0, tr}
  /\ trig[tr].pc = "p_pypi"
  /\ task' = UpdateTask(task, [pypi_dependencies |-> IF disk.req = 0 THEN 0 ELSE disk.lines])
  /\ disk' = SaveTaskInfo(disk)
  /\ trig' = With(tr, [pc |-> "p_parsed",
                       lastEvent |-> IF disk.req = 0 THEN trig[tr].lastEvent ELSE Event("log", "pypi")])
  /\ running' = tr
  /\ UNCHANGED <<options, cached, resp, overlapped>>
  /\ UNCHANGED storeVars
  /\ UNCHANGED serverVars

\* update_task(status=PARSED) and the "complete" event
ParseFinish(tr) ==
  /\ running \in {0, tr}
  /\ trig[tr].pc = "p_parsed"
  /\ task' = UpdateTask(task, [status |-> Parsed])
  /\ disk' = SaveTaskInfo(disk)
  /\ trig' = With(tr, Return @@ [lastEvent |-> SuccessEvent, written |-> Wrote(tr, Parsed)])
  /\ running' = 0
  /\ UNCHANGED <<options, cached, resp, overlapped>>
  /\ UNCHANGED storeVars
  /\ UNCHANGED serverVars

\* the except block of parse_dependencies_background
ParseExcept(tr) ==
  /\ running \in {0, tr}
  /\ trig[tr].kind = "parse" /\ trig[tr].pc = "except"
  /\ task' = UpdateTask(task, FailedFields(trig[tr].exc))
  /\ disk' = SaveTaskInfo(disk)
  /\ trig' = With(tr, Return @@ [lastEvent |-> FailureEvent, erred |-> TRUE, written |-> Wrote(tr, Failed)])
  /\ UNCHANGED <<options, cached, running, resp, overlapped>>
  /\ UNCHANGED storeVars
  /\ UNCHANGED serverVars

\* --------------------------------------------------------- download trigger
\* the orchestrator once the pipelines are through: update_task(status=PACKING)
ToPacking(tr, r) ==
  /\ trig' = With(tr, r @@ [pc |-> "d_packing", n |-> 0, i |-> 0, plat |-> 0])
  /\ running' = tr

\* the orchestrator after npm_downloader.download_packages returned (or was skipped)
AfterNpmDownload(tr, r) ==
  IF options.pypi
    THEN /\ trig' = With(tr, r @@ [pc |-> "d_pypi", n |-> 0, i |-> 0, lastEvent |-> Event("status", "pypi")])
         /\ running' = 0
    ELSE ToPacking(tr, r)

\* download_packages_background up to the first await
DownloadStart(tr) ==
  /\ running \in {0, tr}
  /\ trig[tr].kind = "download" /\ trig[tr].pc = "queued"
  /\ IF ~TaskFound
       THEN /\ trig' = With(tr, Return)
            /\ UNCHANGED <<task, disk, running>>
       ELSE /\ task' = UpdateTask(task, [status |-> Downloading])
            /\ disk' = SaveTaskInfo(disk)
            /\ IF options.npm
                 THEN /\ trig' = With(tr, [pc |-> "d_npm", sawTask |-> TRUE, lastEvent |-> Event("status", "npm"),
                                           written |-> Wrote(tr, Downloading)])
                      /\ running' = 0
                 ELSE AfterNpmDownload(tr, [sawTask |-> TRUE, written |-> Wrote(tr, Downloading)])
  /\ UNCHANGED <<options, cached, resp, overlapped>>
  /\ UNCHANGED storeVars
  /\ UNCHANGED serverVars

\* NPMDownloader.download_packages: the package.json check, download_dir.mkdir,
\* then the "Installing NPM packages..." event is published
NpmDownloadCheck(tr) ==
  /\ running \in {0, tr}
  /\ trig[tr].pc = "d_npm"
  /\ IF ~disk.pkg
       THEN AfterNpmDownload(tr, <<>>) /\ disk' = SaveTaskInfo(disk)
       ELSE /\ trig' = With(tr, [pc |-> "d_npm_stage", lastEvent |-> Event("log", "npm")])
            /\ disk' = [disk EXCEPT !.dir = TRUE]
            /\ UNCHANGED running
  /\ UNCHANGED <<options, task, cached, resp, overlapped>>
  /\ UNCHANGED storeVars
  /\ UNCHANGED serverVars

\* temp_install_dir.mkdir(parents=True), the manifests are copied into it and
\* npm install --production is started
NpmStage(tr) ==
  /\ running \in {0, tr}
  /\ trig[tr].pc = "d_npm_stage"
  /\ disk' = [disk EXCEPT !.dir = TRUE, !.tmp = TRUE]
  /\ IF ~disk.pkg
       THEN Raise(tr, "FileNotFoundError", "npm", <<>>)
       ELSE trig' = With(tr, [pc |-> "d_npm_install"])
  /\ UNCHANGED <<options, task, cached, running, resp, overlapped>>
  /\ UNCHANGED storeVars
  /\ UNCHANGED serverVars

\* npm install has exited: the return code, then node_modules is listed and
\* progress.total set
NpmInstall(tr) ==
  /\ running \in {0, tr}
  /\ trig[tr].pc = "d_npm_install"
  /\ \E rc \in {0, 1} :
       IF rc # 0
         THEN /\ Raise(tr, "Failed to install NPM packages", "npm", [batchFailed |-> TRUE])
              /\ UNCHANGED task
         ELSE \/ /\ disk.tmp
                 /\ \E n \in 0..MaxPkgs :
                      /\ task' = InPlace([task EXCEPT !.npm_progress.total = n])
                      /\ trig' = With(tr, [pc |-> "d_npm_loop", n |-> n, i |-> 1,
                                           lastEvent |-> Event("progress", "npm")])
              \/ /\ trig' = With(tr, [pc |-> "d_npm_loop", n |-> 0, i |-> 1])
                 /\ UNCHANGED task
  /\ UNCHANGED <<options, cached, disk, running, resp, overlapped>>
  /\ UNCHANGED storeVars
  /\ UNCHANGED serverVars

\* a variant of the pack step that takes a package off the count
PackedDown(p) == [p EXCEPT !.completed = @ - 1]

\* npm pack returned 0: progress.completed += 1
Packed(p) == [p EXCEPT !.completed = @ + 1]

\* npm pack returned non-zero, or the pack step raised: the failure is recorded
\* a variant that counts the failure and forgets the name
PackFailedNoName(p, name) == [p EXCEPT !.failed = @ + 1]

PackFailed(p, name) ==
  [p EXCEPT !.failed = @ + 1, !.failed_packages = Append(@, name)]

\* for package_dir in packages: the entries i..j-1 are scope directories ("@...") and
\* are skipped, entry j (named j) is packed; past the last entry the staging
\* directory is removed and download_packages returns
NpmPackLoop(tr) ==
  /\ running \in {0, tr}
  /\ trig[tr].pc = "d_npm_loop"
  /\ \E j \in trig[tr].i .. trig[tr].n + 1 :
       IF j > trig[tr].n
         THEN /\ disk' = SaveTaskInfo([disk EXCEPT !.tmp = FALSE])
              /\ AfterNpmDownload(tr, [lastEvent |-> Event("status", "npm")])
              /\ UNCHANGED task
         ELSE /\ \E outcome \in {"packed", "failed", "raised"} :
                   IF outcome = "packed"
                     THEN /\ task' = InPlace([task EXCEPT !.npm_progress = Packed(@)])
                          /\ trig' = With(tr, [i |-> j + 1, lastEvent |-> Event("progress", "npm")])
                     ELSE /\ task' = InPlace([task EXCEPT !.npm_progress = PackFailed(@, j)])
                          /\ trig' = With(tr, [i |-> j + 1])
              /\ UNCHANGED <<disk, running>>
  /\ UNCHANGED <<options, cached, resp, overlapped>>
  /\ UNCHANGED storeVars
  /\ UNCHANGED serverVars

\* PyPIDownloader.download_packages: the requirements check, the count of lines
PypiDownloadCheck(tr) ==
  /\ running \in {0, tr}
  /\ trig[tr].pc = "d_pypi"
  /\ IF disk.req = 0
       THEN /\ ToPacking(tr, <<>>)
            /\ disk' = SaveTaskInfo(disk)
            /\ UNCHANGED task
       ELSE /\ disk' = [disk EXCEPT !.dir = TRUE, !.pypidir = TRUE]
            /\ task' = InPlace([task EXCEPT !.pypi_progress.total = disk.lines])
            /\ trig' = With(tr, [pc |-> "d_pypi_spawn", plat |-> 1, i |-> 1, n |-> disk.req,
                                 lastEvent |-> Event("progress", "pypi")])
            /\ UNCHANGED running
  /\ UNCHANGED <<options, cached, resp, overlapped>>
  /\ UNCHANGED storeVars
  /\ UNCHANGED serverVars

\* the loops over platform and req_file move on
NextReqFile(tr, r) ==
  IF trig[tr].i < trig[tr].n
    THEN With(tr, r @@ [pc |-> "d_pypi_spawn", i |-> trig[tr].i + 1, cur |-> FALSE, out |-> 0])
    ELSE With(tr, r @@ [pc |-> "d_pypi_spawn", plat |-> trig[tr].plat + 1, i |-> 1,
                        cur |-> FALSE, out |-> 0])

\* for platform in platforms: platform_dir.mkdir; for req_file: pip download is
\* started; after the loops download_packages returns
PypiSpawn(tr) ==
  /\ running \in {0, tr}
  /\ trig[tr].pc = "d_pypi_spawn"
  /\ IF trig[tr].plat > options.platforms
       THEN /\ ToPacking(tr, [lastEvent |-> Event("status", "pypi")])
            /\ disk' = SaveTaskInfo(disk)
       ELSE /\ IF trig[tr].i = 1 /\ ~disk.pypidir
                 THEN Raise(tr, "FileNotFoundError", "pypi", <<>>)
                 ELSE \/ trig' = With(tr, [pc |-> "d_pypi_out", cur |-> FALSE, out |-> 0,
                                           lastEvent |-> Event("log", "pypi")])
                      \/ trig' = NextReqFile(tr, [lastEvent |-> Event("error", "pypi"), erred |-> TRUE])
            /\ UNCHANGED <<disk, running>>
  /\ UNCHANGED <<options, task, cached, resp, overlapped>>
  /\ UNCHANGED storeVars
  /\ UNCHANGED serverVars

\* a "Successfully downloaded"/"Saved" line: counted when a package name was seen
SavedLine(p, cur) == IF cur THEN [p EXCEPT !.completed = @ + 1] ELSE p

\* the names found in stderr that failed_packages does not hold yet are recorded
RECURSIVE RecordFailed(_, _)
RecordFailed(p, names) ==
  IF names = <<>> THEN p
  ELSE LET pkg == Head(names)
           q == IF \E k \in 1..Len(p.failed_packages) : p.failed_packages[k] = pkg
                  THEN p
                  ELSE [p EXCEPT !.failed_packages = Append(@, pkg), !.failed = @ + 1]
       IN RecordFailed(q, Tail(names))

\* async for line in process.stdout: a "Collecting <name>" line sets current_package,
\* a "Saved"/"Successfully downloaded" line is counted (lines of no effect are left
\* out; pip prints these lines only when the files hold a requirement)
PypiLine(tr) ==
  /\ running \in {0, tr}
  /\ trig[tr].pc = "d_pypi_out"
  /\ disk.lines > 0
  /\ \/ /\ ~trig[tr].cur
        /\ trig' = With(tr, [cur |-> TRUE, lastEvent |-> Event("log", "pypi")])
        /\ UNCHANGED task
     \/ /\ trig[tr].cur
        /\ trig[tr].out < MaxOut
        /\ task' = InPlace([task EXCEPT !.pypi_progress = SavedLine(@, trig[tr].cur)])
        /\ trig' = With(tr, [out |-> trig[tr].out + 1, lastEvent |-> Event("progress", "pypi")])
  /\ UNCHANGED <<options, cached, disk, running, resp, overlapped>>
  /\ UNCHANGED storeVars
  /\ UNCHANGED serverVars

\* process.wait(): a non-zero return code is logged and its failed names recorded
\* (pip names a package only when the files hold a requirement)
PypiExit(tr) ==
  /\ running \in {0, tr}
  /\ trig[tr].pc = "d_pypi_out"
  /\ \E rc \in {0, 1} :
       IF rc = 0
         THEN /\ trig' = NextReqFile(tr, <<>>)
              /\ UNCHANGED task
         ELSE \E names \in (IF disk.lines > 0 THEN FailLists ELSE {<<>>}) :
                /\ task' = InPlace([task EXCEPT !.pypi_progress = RecordFailed(@, names)])
                /\ trig' = NextReqFile(tr, [batchFailed |-> TRUE])
  /\ UNCHANGED <<options, cached, disk, running, resp, overlapped>>
  /\ UNCHANGED storeVars
  /\ UNCHANGED serverVars

\* update_task(status=PACKING), then create_archive publishes its first event
PackStart(tr) ==
  /\ running \in {0, tr}
  /\ trig[tr].pc = "d_packing"
  /\ task' = UpdateTask(task, [status |-> Packing])
  /\ disk' = SaveTaskInfo(disk)
  /\ trig' = With(tr, [pc |-> "d_archive", lastEvent |-> Event("status", "packager"), written |-> Wrote(tr, Packing)])
  /\ running' = 0
  /\ UNCHANGED <<options, cached, resp, overlapped>>
  /\ UNCHANGED storeVars
  /\ UNCHANGED serverVars

\* Packager.create_archive: the zip file is opened for writing under the task
\* directory (which creates it), filled, and its size read
CreateArchive(tr) ==
  /\ running \in {0, tr}
  /\ trig[tr].pc = "d_archive"
  /\ IF ~disk.dir
       THEN Raise(tr, "FileNotFoundError", "packager", <<>>) /\ UNCHANGED disk
       ELSE /\ disk' = [disk EXCEPT !.archive = TRUE]
            /\ \/ Raise(tr, "PackagingError", "packager", <<>>)
               \/ \E size \in ArchiveSizes :
                    trig' = With(tr, [pc |-> "d_complete", size |-> size,
                                      lastEvent |-> Event("status", "packager")])
  /\ UNCHANGED <<options, task, cached, running, resp, overlapped>>
  /\ UNCHANGED storeVars
  /\ UNCHANGED serverVars

\* update_task(status=COMPLETED, ...) and the "complete" event
DownloadFinish(tr) ==
  /\ running \in {0, tr}
  /\ trig[tr].pc = "d_complete"
  /\ task' = UpdateTask(task, CompletedFields(trig[tr].size))
  /\ disk' = SaveTaskInfo(disk)
  /\ trig' = With(tr, Return @@ [lastEvent |-> SuccessEvent, written |-> Wrote(tr, Completed)])
  /\ UNCHANGED <<options, cached, running, resp, overlapped>>
  /\ UNCHANGED storeVars
  /\ UNCHANGED serverVars

\* the except block of download_packages_background
DownloadExcept(tr) ==
  /\ running \in {0, tr}
  /\ trig[tr].kind = "download" /\ trig[tr].pc = "except"
  /\ task' = UpdateTask(task, FailedFields(trig[tr].exc))
  /\ disk' = SaveTaskInfo(disk)
  /\ trig' = With(tr, Return @@ [lastEvent |-> FailureEvent, erred |-> TRUE, written |-> Wrote(tr, Failed)])
  /\ UNCHANGED <<options, cached, running, resp, overlapped>>
  /\ UNCHANGED storeVars
  /\ UNCHANGED serverVars

\* ------------------------------------------------------------ specification
ParseStep(tr) ==
  \/ ParseStart(tr)
  \/ NpmResolve(tr)
  \/ NpmLockGen(tr)
  \/ NpmList(tr)
  \/ PypiResolve(tr)
  \/ ParseFinish(tr)
  \/ ParseExcept(tr)

DownloadStep(tr) ==
  \/ DownloadStart(tr)
  \/ NpmDownloadCheck(tr)
  \/ NpmStage(tr)
  \/ NpmInstall(tr)
  \/ NpmPackLoop(tr)
  \/ PypiDownloadCheck(tr)
  \/ PypiSpawn(tr)
  \/ PypiLine(tr)
  \/ PypiExit(tr)
  \/ PackStart(tr)
  \/ CreateArchive(tr)
  \/ DownloadFinish(tr)
  \/ DownloadExcept(tr)

Next ==
  \/ ParseRequest
  \/ DownloadRequest
  \/ DeleteRequest
  \/ GetRequest
  \/ DependenciesRequest
  \/ ArchiveRequest
  \/ \E tr \in Trig : ParseStep(tr)
  \/ \E tr \in Trig : DownloadStep(tr)

Spec == Init /\ [][Next]_vars

\* ------------------------------------------------- the task manager's calls
\* values the orchestrator passes to update_task
Tree ==
  [name |-> "app", version |-> "1.0.0",
   children |-> <<[name |-> "dep", version |-> "2.0.0", children |-> <<>>]>>]
Packages ==
  <<[name |-> "flask", version |-> "3.0.0", size |-> None],
    [name |-> "requests", version |-> ">=2.31.0", size |-> Some(10)]>>
Progress == [total |-> 2, completed |-> 1, failed |-> 1, failed_packages |-> <<"left-pad">>]

\* the keyword sets of the update_task calls in routers/tasks.py
UpdateKwargs(now) ==
  {[status |-> Parsing],
   [npm_dependencies |-> Some(Tree)],
   [pypi_dependencies |-> Packages],
   [npm_progress |-> Progress],
   [status |-> Completed, archive_url |-> Some("/api/tasks/id/archive"),
    archive_size |-> Some(4096), completed_at |-> Some(now)],
   [status |-> Failed, error |-> Some("boom")]}

\* uploaded files: the name, its suffix and the length of its content
PackageJson == [name |-> "package.json", suffix |-> ".json", size |-> 100]
Requirements == [name |-> "requirements.txt", suffix |-> ".txt", size |-> 100]
Installer == [name |-> "setup.exe", suffix |-> ".exe", size |-> 100]
HugeLock == [name |-> "package-lock.json", suffix |-> ".json", size |-> MAX_UPLOAD_SIZE + 1]

\* the files of one create request
UploadLists ==
  {<<PackageJson>>, <<Installer>>, <<HugeLock, Installer>>, <<Requirements, Installer, PackageJson>>}

\* the options form field: absent, a DownloadOptions object, no JSON, or JSON
\* that DownloadOptions(**data) rejects
OptionForms == {"absent", "valid", "not json", "wrong shape"}

\* what the form field "valid" holds
CustomOptions ==
  [npm |-> TRUE, pypi |-> FALSE, node_version |-> "18", python_version |-> "3.13",
   platforms |-> <<"win_amd64">>]

\* the extension and size checks of create_task (router)
Accepted(file) == file.suffix \in ALLOWED_EXTENSIONS /\ file.size <= MAX_UPLOAD_SIZE

Names(files) == [k \in 1..Len(files) |-> files[k].name]

\* pages and sizes a list request may carry (page and size are any int)
Pages == -1..3
Sizes == 1..2

Commit(st) == tasks' = st.tasks /\ base' = st.base /\ saved' = st.saved

\* POST /api/tasks: options are parsed, the files are checked, the task is
\* created and the accepted files are written into uploads/
CreateTask ==
  /\ calls < MaxCalls
  /\ \E files \in UploadLists, form \in OptionForms :
       LET valid == SelectSeq(files, Accepted)
           opts == IF form = "valid" THEN CustomOptions ELSE DownloadOptions
           id == issued + 1
           st == StoreCreate(Store, id, Names(valid), opts, clock)
       IN IF form = "not json"
            THEN ret' = [op |-> "create", code |-> 400, uploaded |-> files]
                 /\ UNCHANGED <<tasks, base, saved, issued>>
          ELSE IF form = "wrong shape"
            THEN ret' = [op |-> "create", code |-> 500, uploaded |-> files]
                 /\ UNCHANGED <<tasks, base, saved, issued>>
          ELSE IF valid = <<>>
            THEN ret' = [op |-> "create", code |-> 400, uploaded |-> files]
                 /\ UNCHANGED <<tasks, base, saved, issued>>
          ELSE /\ issued < MaxTasks
               /\ issued' = id
               /\ Commit([st EXCEPT !.base[id].uploads = {valid[k].name : k \in 1..Len(valid)}])
               /\ ret' = [op |-> "create", code |-> 200, uploaded |-> files, task |-> Lookup(st, id)]
  /\ calls' = calls + 1
  /\ UNCHANGED clock
  /\ UNCHANGED taskVars
  /\ UNCHANGED serverVars

\* task_manager.get_task(id)
GetTask ==
  /\ calls < MaxCalls
  /\ \E id \in Ids :
       LET st == StoreGet(Store, id)
       IN Commit(st) /\ ret' = [op |-> "get", id |-> id, task |-> Lookup(st, id)]
  /\ calls' = calls + 1
  /\ UNCHANGED <<clock, issued>>
  /\ UNCHANGED taskVars
  /\ UNCHANGED serverVars

\* task_manager.update_task(id, **kw)
UpdateTaskCall ==
  /\ calls < MaxCalls
  /\ \E id \in Ids, kw \in UpdateKwargs(clock) :
       LET st == StoreUpdate(Store, id, kw)
       IN Commit(st) /\ ret' = [op |-> "update", id |-> id, kw |-> kw, task |-> Lookup(st, id)]
  /\ calls' = calls + 1
  /\ UNCHANGED <<clock, issued>>
  /\ UNCHANGED taskVars
  /\ UNCHANGED serverVars

\* task_manager.list_tasks(page, size)
ListTasks ==
  /\ calls < MaxCalls
  /\ \E page \in Pages, size \in Sizes :
       LET r == StoreList(tasks, page, size)
       IN ret' = [op |-> "list", page |-> page, size |-> size, tasks |-> r.tasks, total |-> r.total]
  /\ calls' = calls + 1
  /\ UNCHANGED <<tasks, base, saved, clock, issued>>
  /\ UNCHANGED taskVars
  /\ UNCHANGED serverVars

\* task_manager.delete_task(id)
DeleteTask ==
  /\ calls < MaxCalls
  /\ \E id \in Ids :
       Commit(StoreDelete(Store, id)) /\ ret' = [op |-> "delete", id |-> id, ok |-> TRUE]
  /\ calls' = calls + 1
  /\ UNCHANGED <<clock, issued>>
  /\ UNCHANGED taskVars
  /\ UNCHANGED serverVars

\* cleanup_task_loop: the hourly sweep
CleanupExpired ==
  /\ calls < MaxCalls
  /\ Commit(StoreCleanup(Store, Ids, clock))
  /\ ret' = [op |-> "cleanup"]
  /\ calls' = calls + 1
  /\ UNCHANGED <<clock, issued>>
  /\ UNCHANGED taskVars
  /\ UNCHANGED serverVars

\* the process is restarted: TaskManager() starts with an empty cache and
\* lifespan runs the sweep
Restart ==
  /\ calls < MaxCalls
  /\ Commit(StoreCleanup([Store EXCEPT !.tasks = <<>>], Ids, clock))
  /\ ret' = [op |-> "restart"]
  /\ calls' = calls + 1
  /\ UNCHANGED <<clock, issued>>
  /\ UNCHANGED taskVars
  /\ UNCHANGED serverVars

\* time passes
Tick ==
  /\ clock.h < MaxClock
  /\ \E us \in Micros : clock' = DateTime(clock.h + ClockStep, us)
  /\ UNCHANGED <<tasks, base, saved, issued, calls, ret>>
  /\ UNCHANGED taskVars
  /\ UNCHANGED serverVars

\* a record an earlier run of the process persisted for the first id
Earlier(us) ==
  LET t == NewTaskInfo(1, <<"package.json">>, DownloadOptions, DateTime(0, us))
  IN {t,
      SetAttrs(t, [status |-> Parsed, npm_dependencies |-> Some(Tree), pypi_dependencies |-> Packages]),
      SetAttrs(t, [status |-> Downloading, npm_progress |-> Progress, pypi_progress |-> Progress]),
      SetAttrs(t, [status |-> Completed, archive_url |-> Some("/api/tasks/id/archive"),
                   archive_size |-> Some(4096), completed_at |-> Some(DateTime(0, 0))]),
      SetAttrs(t, [status |-> Failed, error |-> Some("boom")])}

\* the process starts: nothing is cached; the base directory is empty or holds
\* the directory of the first id from an earlier run, with a persisted record,
\* with a task_info.json cut short by a crash, or without one
StoreInit ==
  /\ options = [npm |-> FALSE, pypi |-> FALSE, platforms |-> 0]
  /\ disk = DeletedDisk
  /\ task = TaskInfo
  /\ cached = FALSE
  /\ trig = [tr \in Trig |-> Idle]
  /\ running = 0
  /\ resp = 200
  /\ overlapped = FALSE
  /\ tasks = <<>>
  /\ clock = DateTime(0, 0)
  /\ calls = 0
  /\ ret = [op |-> "none"]
  /\ ServerAtRest
  /\ \/ /\ issued = 0
        /\ base = [id \in Ids |-> NoDir]
        /\ saved = [id \in Ids |-> None]
     \/ /\ issued = 1
        /\ \E info \in {NoFile, Garbage} :
             base = [id \in Ids |-> IF id = 1 THEN [exists |-> TRUE, info |-> info, uploads |-> {},
                                                    subdirs |-> {"npm-packages"}]
                                              ELSE NoDir]
        /\ saved = [id \in Ids |-> None]
     \/ /\ issued = 1
        /\ \E t \in Earlier(5) :
             /\ base = [id \in Ids |-> IF id = 1
                                         THEN [exists |-> TRUE, info |-> ModelDump(t),
                                               uploads |-> {"package.json"},
                                               subdirs |-> {"uploads", "npm-packages", "python-packages"}]
                                         ELSE NoDir]
             /\ saved = [id \in Ids |-> IF id = 1 THEN Some(t) ELSE None]

StoreNext ==
  \/ CreateTask
  \/ GetTask
  \/ UpdateTaskCall
  \/ ListTasks
  \/ DeleteTask
  \/ CleanupExpired
  \/ Restart
  \/ Tick

StoreSpec == StoreInit /\ [][StoreNext]_vars

\* ------------------------------------------------------------ the event hub
\* the websockets in a list
Members(list) == {list[k] : k \in 1..Len(list)}

\* list.remove(websocket), when the list holds it
Remove(list, c) == SelectSeq(list, LAMBDA x : x # c)

\* for connection in disconnected: self.disconnect(task_id, connection)
RECURSIVE Prune(_, _)
Prune(list, disconnected) ==
  IF disconnected = <<>> THEN list
  ELSE Prune(Remove(list, Head(disconnected)), Tail(disconnected))

\* websocket_endpoint: the task is found, the websocket is accepted and
\* appended to the task's list
Connect(c) ==
  /\ sock[c] = "new"
  /\ sock' = [sock EXCEPT ![c] = "open"]
  /\ conns' = Append(conns, c)
  /\ UNCHANGED <<pub, inbox, published, work>>
  /\ UNCHANGED <<taskVars, storeVars, parserVars>>

\* the peer of an open websocket goes away: from now on send_json raises
Break(c) ==
  /\ sock[c] = "open"
  /\ sock' = [sock EXCEPT ![c] = "broken"]
  /\ UNCHANGED <<conns, pub, inbox, published, work>>
  /\ UNCHANGED <<taskVars, storeVars, parserVars>>

\* websocket_endpoint: receive_text raises WebSocketDisconnect (or another
\* exception) and the handler calls ws_manager.disconnect
EndpointDisconnect(c) ==
  /\ sock[c] \in {"open", "broken"}
  /\ sock' = [sock EXCEPT ![c] = "closed"]
  /\ conns' = Remove(conns, c)
  /\ UNCHANGED <<pub, inbox, published, work>>
  /\ UNCHANGED <<taskVars, storeVars, parserVars>>

\* broadcast / send_message up to the first await: nothing to do without a
\* list for the task, else the loop starts with the first websocket
Broadcast(p) ==
  /\ pub[p].pc = "idle"
  /\ published < MaxEvents
  /\ published' = published + 1
  /\ pub' = IF conns = <<>> THEN pub
            ELSE [pub EXCEPT ![p] = [pc |-> "send", ev |-> published + 1, idx |-> 1,
                                     target |-> conns[1], disconnected |-> <<>>,
                                     audience |-> Members(conns)]]
  /\ UNCHANGED <<conns, sock, inbox, work>>
  /\ UNCHANGED <<taskVars, storeVars, parserVars>>

\* await connection.send_json(message) comes back: the message went out or the
\* send raised; the loop takes the next websocket of the list, and after the
\* last one the websockets whose send raised are disconnected
SendJson(p) ==
  /\ pub[p].pc = "send"
  /\ LET c == pub[p].target
         sent == sock[c] = "open"
         disconnected == IF sent THEN pub[p].disconnected ELSE Append(pub[p].disconnected, c)
     IN /\ inbox' = IF sent THEN [inbox EXCEPT ![c] = Append(@, pub[p].ev)] ELSE inbox
        /\ IF pub[p].idx < Len(conns)
             THEN /\ pub' = [pub EXCEPT ![p].idx = @ + 1,
                                        ![p].target = conns[pub[p].idx + 1],
                                        ![p].disconnected = disconnected]
                  /\ UNCHANGED conns
             ELSE /\ pub' = [pub EXCEPT ![p] = Quiet]
                  /\ conns' = Prune(conns, disconnected)
  /\ UNCHANGED <<sock, published, work>>
  /\ UNCHANGED <<taskVars, storeVars, parserVars>>

\* the views of the task and of the task manager while the hub is followed
ViewsAtRest ==
  /\ options = [npm |-> FALSE, pypi |-> FALSE, platforms |-> 0]
  /\ disk = DeletedDisk
  /\ task = TaskInfo
  /\ cached = FALSE
  /\ trig = [tr \in Trig |-> Idle]
  /\ running = 0
  /\ resp = 200
  /\ overlapped = FALSE
  /\ StoreAtRest

HubInit == ViewsAtRest /\ ServerAtRest

HubNext ==
  \/ \E c \in Conn : Connect(c)
  \/ \E c \in Conn : Break(c)
  \/ \E c \in Conn : EndpointDisconnect(c)
  \/ \E p \in Trig : Broadcast(p)
  \/ \E p \in Trig : SendJson(p)

HubSpec == HubInit /\ [][HubNext]_vars

\* ------------------------------------------------------------- admission
\* parse_task: the status guard, then the background unit is scheduled
\* (in this view a task has one trigger at a time)
ParseTask(id) ==
  /\ work[id].busy = "none"
  /\ ParseAccepts(work[id].status)
  /\ work' = [work EXCEPT ![id].busy = "parse"]
  /\ UNCHANGED <<hubVars, taskVars, storeVars, parserVars>>

\* start_download: the status guard, then the background unit is scheduled
StartDownload(id) ==
  /\ work[id].busy = "none"
  /\ DownloadAccepts(work[id].status)
  /\ work' = [work EXCEPT ![id].busy = "download"]
  /\ UNCHANGED <<hubVars, taskVars, storeVars, parserVars>>

\* the background unit starts: update_task(status=PARSING / DOWNLOADING)
TriggerStart(id) ==
  /\ \/ work[id].busy = "parse" /\ work[id].status # Parsing
        /\ work' = [work EXCEPT ![id].status = Parsing]
     \/ work[id].busy = "download" /\ work[id].status # Downloading
        /\ work' = [work EXCEPT ![id].status = Downloading]
  /\ UNCHANGED <<hubVars, taskVars, storeVars, parserVars>>

\* the background unit ends: PARSED, COMPLETED, or FAILED from its except block
TriggerEnd(id) ==
  /\ \/ work[id].busy = "parse" /\ work[id].status = Parsing
        /\ \E st \in {Parsed, Failed} : work' = [work EXCEPT ![id] = [status |-> st, busy |-> "none"]]
     \/ work[id].busy = "download" /\ work[id].status = Downloading
        /\ \E st \in {Completed, Failed} : work' = [work EXCEPT ![id] = [status |-> st, busy |-> "none"]]
  /\ UNCHANGED <<hubVars, taskVars, storeVars, parserVars>>

AdmitInit == ViewsAtRest /\ ServerAtRest

AdmitNext ==
  \/ \E id \in TaskIds : ParseTask(id)
  \/ \E id \in TaskIds : StartDownload(id)
  \/ \E id \in TaskIds : TriggerStart(id)
  \/ \E id \in TaskIds : TriggerEnd(id)

AdmitSpec == AdmitInit /\ [][AdmitNext]_vars

\* ------------------------------------------- the sweep over the one task
\* created_at of the task
CreatedAt == DateTime(0, 0)

\* cleanup_expired_tasks for the directory of the task: it is skipped without
\* a task_info.json, and deleted when created_at is past the expiry age
SweepTask ==
  /\ running = 0
  /\ IF disk.dir /\ disk.info /\ Expired(CreatedAt, clock)
       THEN disk' = DeletedDisk /\ cached' = FALSE /\ task' = TaskInfo
       ELSE UNCHANGED <<disk, cached, task>>
  /\ UNCHANGED <<options, trig, running, resp, overlapped>>
  /\ UNCHANGED <<tasks, base, saved, clock, issued, calls, ret>>
  /\ UNCHANGED serverVars

\* an npm task with its package.json, right after create_task
SweepInit ==
  /\ options = [npm |-> TRUE, pypi |-> FALSE, platforms |-> 0]
  /\ disk = [dir |-> TRUE, info |-> TRUE, pkg |-> TRUE, lock |-> FALSE, req |-> 0,
             lines |-> 0, pypidir |-> TRUE, tmp |-> FALSE, archive |-> FALSE]
  /\ task = TaskInfo
  /\ cached = TRUE
  /\ trig = [tr \in Trig |-> Idle]
  /\ running = 0
  /\ resp = 200
  /\ overlapped = FALSE
  /\ tasks = <<>>
  /\ base = [id \in Ids |-> NoDir]
  /\ saved = [id \in Ids |-> None]
  /\ clock = CreatedAt
  /\ issued = 0
  /\ calls = 0
  /\ ret = [op |-> "none"]
  /\ ServerAtRest

\* the steps of a download trigger of such a task
NpmTaskStep(tr) ==
  \/ DownloadStart(tr)
  \/ NpmDownloadCheck(tr)
  \/ NpmStage(tr)
  \/ NpmInstall(tr)
  \/ NpmPackLoop(tr)
  \/ PackStart(tr)
  \/ CreateArchive(tr)
  \/ DownloadFinish(tr)
  \/ DownloadExcept(tr)

SweepNext ==
  \/ DownloadRequest
  \/ DeleteRequest
  \/ \E tr \in Trig : NpmTaskStep(tr)
  \/ SweepTask
  \/ Tick

\* a scheduled unit of work runs on, the hourly sweep comes round, time passes
SweepSpec ==
  /\ SweepInit
  /\ [][SweepNext]_vars
  /\ WF_vars(\E tr \in Trig : NpmTaskStep(tr))
  /\ WF_vars(SweepTask)
  /\ WF_vars(Tick)

\* ------------------------------------------------- the requirements parser
\* [a-zA-Z0-9_-], [>=<~!] and the characters str.strip() takes off
NameChars ==
  {"a", "b", "c", "d", "e", "f", "g", "h", "i", "j", "k", "l", "m", "n", "o", "p", "q", "r",
   "s", "t", "u", "v", "w", "x", "y", "z",
   "A", "B", "C", "D", "E", "F", "G", "H", "I", "J", "K", "L", "M", "N", "O", "P", "Q", "R",
   "S", "T", "U", "V", "W", "X", "Y", "Z",
   "0", "1", "2", "3", "4", "5", "6", "7", "8", "9", "_", "-"}
OperatorChars == {">", "=", "<", "~", "!"}
Whitespace == {" ", "\t", "\n", "\r"}

\* f.readlines(): a line of the file with its line end
Line(text) == text \o <<"\n">>

\* the lines a requirements file is made of
FlaskLine == Line(<<"f", "l", "a", "s", "k", "=", "=", "3", ".", "0", ".", "0">>)
CommentLine == Line(<<"#", " ", "c", "o", "m", "m", "e", "n", "t">>)
RequestsLine == Line(<<"r", "e", "q", "u", "e", "s", "t", "s", ">", "=", "2", ".", "3", "1", ".", "0">>)
\* ... and a blank line, an indented name without a version, a local path
FileLines ==
  {FlaskLine, CommentLine, RequestsLine,
   Line(<<" ">>), Line(<<" ", "n", "u", "m", "p", "y">>), Line(<<".", "/", "p", "k", "g">>)}

\* the contents of requirements.txt
Files == UNION {[1..n -> FileLines] : n \in 0..MaxFileLines}

\* str.strip()
RECURSIVE LStrip(_)
LStrip(s) == IF s # <<>> /\ Head(s) \in Whitespace THEN LStrip(Tail(s)) ELSE s

RECURSIVE RStrip(_)
RStrip(s) ==
  IF s # <<>> /\ s[Len(s)] \in Whitespace THEN RStrip(SubSeq(s, 1, Len(s) - 1)) ELSE s

Strip(s) == RStrip(LStrip(s))

\* the longest prefix of s made of characters of set (a greedy character class)
RECURSIVE Longest(_, _)
Longest(s, set) ==
  IF s # <<>> /\ Head(s) \in set THEN <<Head(s)>> \o Longest(Tail(s), set) ELSE <<>>

\* s without its first n characters
Drop(s, n) == SubSeq(s, n + 1, Len(s))

\* re.match(r"^([a-zA-Z0-9_-]+)([>=<~!]+)?(.+)?$", line): the three groups, an
\* optional group that took nothing being None; no match without a first
\* character of the name class (the greedy choices always reach the end)
ReMatch(line) ==
  LET g1 == Longest(line, NameChars)
      g2 == Longest(Drop(line, Len(g1)), OperatorChars)
      g3 == Drop(line, Len(g1) + Len(g2))
  IN IF g1 = <<>> THEN None
     ELSE Some([name |-> g1,
                op |-> IF g2 = <<>> THEN None ELSE Some(g2),
                rest |-> IF g3 = <<>> THEN None ELSE Some(g3)])

\* the version sentinel of a requirement without a version
Latest == <<"l", "a", "t", "e", "s", "t">>

\* PackageInfo(name=..., version=...)
PackageInfo(name, version) == [name |-> name, version |-> version, size |-> None]

\* the loop over the lines of PyPIDownloader.parse_dependencies: blank lines
\* and comments are skipped, a line that matches gives one PackageInfo
RECURSIVE ParseLines(_)
ParseLines(lines) ==
  IF lines = <<>> THEN <<>>
  ELSE LET line == Strip(Head(lines))
           match == ReMatch(line)
           found == IF line = <<>> \/ Head(line) = "#" THEN <<>>
                    ELSE IF match = None THEN <<>>
                    ELSE <<PackageInfo(match[1].name,
                                       IF match[1].rest = None THEN Latest ELSE match[1].rest[1])>>
       IN found \o ParseLines(Tail(lines))

\* PyPIDownloader.parse_dependencies for an upload directory that holds the
\* requirements file
ParseDependencies ==
  /\ reqPc = "ready"
  /\ packages' = ParseLines(reqFile)
  /\ reqPc' = "returned"
  /\ UNCHANGED <<reqFile, hubVars, work>>
  /\ UNCHANGED <<taskVars, storeVars>>

ParserInit ==
  /\ ViewsAtRest
  /\ HubAtRest
  /\ work = [id \in TaskIds |-> Fresh]
  /\ reqFile \in Files
  /\ reqPc = "ready"
  /\ packages = <<>>

ParserSpec == ParserInit /\ [][ParseDependencies]_vars

\* ------------------------------------------- a crash while a record is saved
\* what a process that dies inside _save_task_info leaves in task_info.json:
\* the file as it was (before open), an empty or cut file (open(..., "w") has
\* truncated it and json.dump is not through), or the new record
CrashPoints == {"before", "during", "after"}

\* update_task(id, **kw) of a task that has a record dies inside the save; the
\* process is started again: nothing is cached and lifespan runs the sweep
SaveCrash ==
  /\ calls < MaxCalls
  /\ \E id \in Ids, kw \in UpdateKwargs(clock), at \in CrashPoints :
       LET got == StoreGet(Store, id)
           pos == Position(got.tasks, id)
           new == StoreSave([got EXCEPT !.tasks[pos] = SetAttrs(@, kw)], id)
           left == IF at = "before" THEN got
                   ELSE IF at = "during" THEN [new EXCEPT !.base[id].info = Garbage, !.saved[id] = None]
                   ELSE new
       IN /\ pos # 0
          /\ Commit(StoreCleanup([left EXCEPT !.tasks = <<>>], Ids, clock))
          /\ ret' = [op |-> "crash", id |-> id, at |-> at,
                     old |-> LoadTaskInfo(got.base[id].info), new |-> Lookup(new, id)]
  /\ calls' = calls + 1
  /\ UNCHANGED <<clock, issued>>
  /\ UNCHANGED taskVars
  /\ UNCHANGED serverVars

CrashNext ==
  \/ CreateTask
  \/ GetTask
  \/ UpdateTaskCall
  \/ SaveCrash

CrashSpec == StoreInit /\ [][CrashNext]_vars

\* ------------------------------------------ a restart under a parse trigger
\* the frame of a coroutine that went down with its process
Killed == [pc |-> "killed", n |-> 0, i |-> 0, plat |-> 0, cur |-> FALSE, out |-> 0,
           size |-> 0, exc |-> "None"]

\* the process stops while a unit of work is scheduled or running and is
\* started again (lifespan): the event loop and its background units of work
\* are gone, TaskManager() has an empty cache, and the record is what
\* task_info.json holds (a parse trigger changes the record through
\* update_task only, which saves it each time)
ProcessRestart ==
  /\ \E tr \in InFlight : trig[tr].pc # "killed"
  /\ cached' = FALSE
  /\ running' = 0
  /\ trig' = [tr \in Trig |-> IF tr \in InFlight
                                THEN [k \in DOMAIN trig[tr] |->
                                        IF k \in DOMAIN Killed THEN Killed[k] ELSE trig[tr][k]]
                                ELSE trig[tr]]
  /\ UNCHANGED <<options, task, disk, resp, overlapped>>
  /\ UNCHANGED storeVars
  /\ UNCHANGED serverVars

RestartNext ==
  \/ ParseRequest
  \/ GetRequest
  \/ \E tr \in Trig : ParseStep(tr)
  \/ ProcessRestart

\* a scheduled unit of work runs on as long as its process lives, and the
\* external tools it waits for terminate
RestartSpec ==
  /\ Init
  /\ [][RestartNext]_vars
  /\ WF_vars(\E tr \in Trig : ParseStep(tr))

\* ------------------------------------------------------------------ claims
Terminal == {Completed, Failed}

\* C1: once the record's status is Completed or Failed, no later step of any
\* trigger changes it
C1_TerminalStatusKept ==
  [][(cached /\ cached' /\ task.status \in Terminal) => task'.status = task.status]_vars

\* the lifecycle edges
Edges ==
  {<<Created, Parsing>>, <<Parsing, Parsed>>, <<Parsed, Downloading>>, <<Downloading, Packing>>,
   <<Packing, Completed>>, <<Created, Downloading>>}
  \cup {<<s, Failed>> : s \in TaskStatus \ Terminal}

\* C2: every change of the record's status follows a lifecycle edge, also when
\* more than one trigger was accepted
C2_StatusFollowsEdges ==
  [][(cached /\ cached' /\ task'.status # task.status) => <<task.status, task'.status>> \in Edges]_vars

\* C3: at most one trigger of a task is accepted-or-running at a time
C3_OneTriggerInFlight == Cardinality(InFlight) <= 1

Scheduled(tr, kind) == trig[tr].kind = "none" /\ trig'[tr].kind = kind

\* C4: a parse trigger is accepted only from Created and a download trigger only
\* from Created or Parsed; from any other status the request is answered 400,
\* nothing is scheduled and the record stays as it was
C4_TriggersGuarded ==
  [][/\ (ParseRequest /\ TaskFound /\ task.status # "created")
          => (resp' = 400 /\ UNCHANGED <<options, task, cached, disk, trig, running, overlapped>>)
     /\ (DownloadRequest /\ TaskFound /\ task.status \notin {"created", "parsed"})
          => (resp' = 400 /\ UNCHANGED <<options, task, cached, disk, trig, running, overlapped>>)
     /\ \A tr \in Trig :
          /\ Scheduled(tr, "parse") => (TaskFound /\ task.status = "created" /\ resp' = 200 /\ task' = task)
          /\ Scheduled(tr, "download")
               => (TaskFound /\ task.status \in {"created", "parsed"} /\ resp' = 200 /\ task' = task)]_vars

\* a request was rejected while a trigger had the task in Packing
C4_Witness == resp = 400 /\ cached /\ task.status = Packing /\ InFlight # {}

\* C5: when a step of a trigger raises while the task exists, the orchestrator's
\* handler sets status Failed, stores the message as error and publishes an
\* error event; every raise reaches that handler
C5_FailureRecorded ==
  /\ [](\A tr \in Trig : trig[tr].raised => (trig[tr].pc \in {"except", "done"} /\ trig[tr].sawTask))
  /\ [](\A tr \in Trig : trig[tr].pc = "except" => (trig[tr].raised /\ trig[tr].exc # "None"))
  /\ [][\A tr \in Trig :
          (trig[tr].raised /\ trig[tr].pc = "except" /\ trig'[tr].pc # "except" /\ TaskFound)
            => /\ task'.status = Failed
               /\ task'.error = trig[tr].exc
               /\ trig'[tr].pc = "done"
               /\ trig'[tr].lastEvent = [type |-> "error", src |-> "tasks"]
               /\ trig'[tr].written = Append(trig[tr].written, Failed)]_vars

\* a trigger raised, its handler ran, and the record shows the failure
C5_Witness ==
  \E tr \in Trig :
    /\ trig[tr].raised /\ trig[tr].pc = "done"
    /\ cached /\ task.status = Failed /\ task.error = "Failed to install NPM packages"
    /\ trig[tr].lastEvent.type = "error"

IsPrefix(s, t) == Len(s) <= Len(t) /\ \A k \in 1..Len(s) : s[k] = t[k]

DownloadRan(tr) == trig[tr].kind = "download" /\ trig[tr].sawTask /\ cached

\* C6: a download trigger that does not raise writes Downloading, Packing,
\* Completed in this order and nothing else; the update that writes Completed
\* also stores the archive location, the size the packager returned and the
\* completion time, and with no other trigger accepted meanwhile the record
\* shows them when the trigger is through
C6_DownloadLifecycle ==
  /\ [](\A tr \in Trig :
          (DownloadRan(tr) /\ ~trig[tr].raised)
            => /\ IsPrefix(trig[tr].written, <<Downloading, Packing, Completed>>)
               /\ trig[tr].pc = "done" => trig[tr].written = <<Downloading, Packing, Completed>>
               /\ (trig[tr].pc = "done" /\ ~overlapped)
                    => /\ task.status = Completed
                       /\ task.archive_url # "None"
                       /\ task.archive_size \in ArchiveSizes
                       /\ task.completed_at # "None")
  /\ [][\A tr \in Trig :
          (trig[tr].pc = "d_complete" /\ trig'[tr].pc # "d_complete" /\ TaskFound)
            => /\ task.status = Packing \/ overlapped
               /\ task'.status = Completed
               /\ task'.archive_url # "None"
               /\ task'.archive_size = trig[tr].size
               /\ task'.completed_at # "None"]_vars

\* a lone download trigger went through and the record is complete
C6_Witness ==
  \E tr \in Trig :
    /\ DownloadRan(tr) /\ trig[tr].pc = "done" /\ ~overlapped
    /\ trig[tr].written = <<Downloading, Packing, Completed>>
    /\ task.status = Completed /\ task.archive_size = 4096

\* C7: completed + failed never exceeds total, in both progress records
C7_ProgressBounded ==
  cached => /\ task.npm_progress.completed + task.npm_progress.failed <= task.npm_progress.total
            /\ task.pypi_progress.completed + task.pypi_progress.failed <= task.pypi_progress.total

\* C8: a package that fails to pack is counted in failed and its name appended to
\* failed_packages, the loop goes on with the next package without raising, and
\* the trigger ends with status Completed
C8_PackageFailureTolerated ==
  /\ [][\A tr \in Trig :
          (trig[tr].pc = "d_npm_loop" /\ trig'[tr].pc = "d_npm_loop" /\ trig'[tr].i # trig[tr].i /\ cached)
            => LET p == task.npm_progress
                   q == task'.npm_progress
               IN /\ ~trig'[tr].raised
                  /\ trig'[tr].i > trig[tr].i
                  /\ \/ q = [p EXCEPT !.completed = p.completed + 1]
                     \/ q = [p EXCEPT !.failed = p.failed + 1,
                                      !.failed_packages = Append(p.failed_packages, trig'[tr].i - 1)]]_vars
  /\ [](\A tr \in Trig :
          (DownloadRan(tr) /\ trig[tr].pc = "done" /\ ~trig[tr].raised)
            => /\ trig[tr].written[Len(trig[tr].written)] = Completed
               /\ ~overlapped => /\ task.status = Completed
                                 /\ task.npm_progress.failed = Len(task.npm_progress.failed_packages))

\* one package failed, the next one was packed, and the task completed
C8_Witness ==
  \E tr \in Trig :
    /\ DownloadRan(tr) /\ trig[tr].pc = "done" /\ ~overlapped
    /\ task.status = Completed
    /\ task.npm_progress.failed_packages = <<1>> /\ task.npm_progress.completed = 1

\* C9: a trigger whose batch install/download step exited non-zero ends with
\* status Failed
C9_BatchFailureFails ==
  \A tr \in Trig :
    (trig[tr].batchFailed /\ trig[tr].pc = "done" /\ cached)
      => trig[tr].written[Len(trig[tr].written)] = Failed

\* C10: a trigger whose background work started and is through has published a
\* terminal event as its last event
C10_TerminalEventLast ==
  \A tr \in Trig :
    (trig[tr].kind # "none" /\ trig[tr].pc = "done") => trig[tr].lastEvent.type \in {"complete", "error"}

\* C17: the task directory exists if and only if a record of the task exists
\* (cached or persisted), at every step of every trigger
C17_DirectoryIffRecord == disk.dir <=> TaskFound

\* everything but the response
StoreAndTriggers == <<options, task, cached, disk, trig, running, overlapped, storeVars>>

\* C18: for a task with neither a cached nor a persisted record, the get,
\* dependencies, parse, download, delete and archive handlers answer 404,
\* schedule nothing and leave the store as it is
C18_UnknownTaskNotFound ==
  [][~TaskFound =>
       /\ (GetRequest \/ DependenciesRequest \/ ParseRequest \/ DownloadRequest
             \/ DeleteRequest \/ ArchiveRequest)
            => (resp' = 404 /\ UNCHANGED StoreAndTriggers)
       /\ \A tr \in Trig : ~Scheduled(tr, "parse") /\ ~Scheduled(tr, "download")]_vars

\* a request for the deleted task was answered 404 while a trigger accepted
\* before the delete is still in flight
C18_Witness == resp = 404 /\ ~TaskFound /\ InFlight # {}

\* a call to the task manager returned, with `op` as its kind
Returned(op) == calls' = calls + 1 /\ ret'.op = op

\* C11: the record read back from task_info.json equals, field for field, the
\* record that was persisted, and a get that has to load after a restart puts
\* exactly that record into the cache
C11_PersistRoundTrip ==
  /\ [](\A id \in Ids : saved[id] # None => LoadTaskInfo(base[id].info) = saved[id])
  /\ [][\A id \in Ids :
          (Returned("get") /\ ret'.id = id /\ Position(tasks, id) = 0 /\ saved[id] # None)
            => /\ ret'.task = saved[id]
               /\ Position(tasks', id) > 0
               /\ tasks'[Position(tasks', id)] = saved[id][1]]_vars

\* after the start of the process a get loaded the parsed task of the earlier
\* run, with its dependency tree, package list and timestamps
C11_Witness ==
  /\ ret.op = "get" /\ calls = 1 /\ ret.task # None
  /\ ret.task[1].status = Parsed
  /\ ret.task[1].npm_dependencies = <<Tree>>
  /\ Len(ret.task[1].pypi_dependencies) = 2
  /\ ret.task[1].created_at = [h |-> 0, us |-> 5]

\* the record the store holds for id: the cached one, else the persisted one
Held(id) == IF Position(tasks, id) > 0 THEN <<tasks[Position(tasks, id)]>> ELSE saved[id]

\* C12: update of an existing task sets exactly the named fields, keeps every
\* other field, and leaves a persisted record equal to the in-memory one;
\* update of an unknown id reports not-found and changes neither cache nor disk
C12_UpdateFrame ==
  [][\A id \in Ids :
       (Returned("update") /\ ret'.id = id)
         => IF Held(id) = None
            THEN ret'.task = None /\ tasks' = tasks /\ base' = base
            ELSE /\ ret'.task # None
                 /\ \A f \in DOMAIN Held(id)[1] :
                      ret'.task[1][f] = IF f \in DOMAIN ret'.kw THEN ret'.kw[f] ELSE Held(id)[1][f]
                 /\ Position(tasks', id) > 0
                 /\ tasks'[Position(tasks', id)] = ret'.task[1]
                 /\ base'[id].exists
                 /\ LoadTaskInfo(base'[id].info) = ret'.task
                 /\ \A o \in Ids \ {id} : base'[o] = base[o]]_vars

\* the parsed task of the earlier run was marked failed: status and error are
\* the new ones, its dependency tree is still there
C12_Witness ==
  /\ ret.op = "update" /\ ret.task # None
  /\ "error" \in DOMAIN ret.kw
  /\ ret.task[1].status = Failed
  /\ ret.task[1].error = ret.kw.error
  /\ ret.task[1].npm_dependencies = <<Tree>>

\* C13: delete removes the directory and the cached record; deleting an id
\* that has neither succeeds as well and leaves the store as it was
C13_DeleteIdempotent ==
  [][\A id \in Ids :
       (Returned("delete") /\ ret'.id = id)
         => /\ ret'.ok
            /\ ~base'[id].exists
            /\ Position(tasks', id) = 0
            /\ \A o \in Ids \ {id} : base'[o] = base[o] /\ (Position(tasks', o) > 0) = (Position(tasks, o) > 0)
            /\ (~base[id].exists /\ Position(tasks, id) = 0) => (tasks' = tasks /\ base' = base)]_vars

\* delete was called for an id that no task ever had
C13_Witness ==
  /\ ret.op = "delete" /\ ret.ok
  /\ ret.id > issued
  /\ base = [i \in Ids |-> NoDir] /\ tasks = <<>>

\* created_at of a is not earlier than that of b
NotOlder(a, b) ==
  a.created_at.h > b.created_at.h
    \/ (a.created_at.h = b.created_at.h /\ a.created_at.us >= b.created_at.us)

\* the orders of the cached tasks that have the newest first
NewestFirst ==
  {all \in {[k \in 1..Len(tasks) |-> tasks[f[k]]] : f \in Permutations(1..Len(tasks))} :
     \A k \in 1..(Len(all) - 1) : NotOlder(all[k], all[k + 1])}

\* 25 tasks, created one hour after the other, in the order of their creation
TwentyFive == [k \in 1..25 |-> NewTaskInfo(k, <<"package.json">>, DownloadOptions, DateTime(k, 0))]

\* C14: for page >= 1, list returns the positions (page-1)*size .. page*size-1
\* of the tasks the store holds, newest first, and their number as the total;
\* of 25 tasks, page 2 of size 20 is the 5 oldest
C14_ListPage ==
  /\ [][(Returned("list") /\ ret'.page >= 1)
          => /\ ret'.total = Len(tasks)
             /\ \E all \in NewestFirst :
                  LET start == (ret'.page - 1) * ret'.size
                      end == IF start + ret'.size < Len(all) THEN start + ret'.size ELSE Len(all)
                  IN ret'.tasks = [k \in 1..(IF end > start THEN end - start ELSE 0) |-> all[start + k]]]_vars
  /\ [](/\ StoreList(TwentyFive, 2, 20).total = 25
        /\ StoreList(TwentyFive, 2, 20).tasks = [k \in 1..5 |-> TwentyFive[6 - k]]
        /\ Len(StoreList(TwentyFive, 1, 20).tasks) = 20)

\* two tasks are held and page 2 of size 1 is the older one
C14_Witness ==
  /\ ret.op = "list" /\ ret.page = 2 /\ ret.size = 1 /\ ret.total = 2
  /\ Len(ret.tasks) = 1
  /\ \E k \in 1..Len(tasks) : tasks[k].task_id # ret.tasks[1].task_id
                                /\ ret.tasks[1].created_at.h < tasks[k].created_at.h

\* C15: list returns an empty slice for every page out of range, beyond the
\* last page or below 1, and the total is the number of tasks
C15_OutOfRangeEmpty ==
  (ret.op = "list" /\ (ret.page < 1 \/ (ret.page - 1) * ret.size >= ret.total))
    => (ret.tasks = <<>> /\ ret.total = Len(tasks))

\* the persisted created_at of id is more than TASK_EXPIRE_HOURS before the clock
PastExpiry(id) ==
  LET c == saved[id][1].created_at
  IN c.h + 24 < clock.h \/ (c.h + 24 = clock.h /\ c.us < clock.us)

\* C16: the sweep deletes every task whose persisted created_at is older than
\* now minus the expiry age and retains every newer one; a directory whose
\* task_info.json is missing or does not load is left alone, and the sweep
\* goes on with the other directories
C16_SweepExpired ==
  [][(Returned("cleanup") \/ Returned("restart"))
       => \A id \in Ids :
            IF base[id].exists /\ saved[id] # None /\ PastExpiry(id)
            THEN ~base'[id].exists /\ Position(tasks', id) = 0
            ELSE /\ base'[id] = base[id]
                 /\ Returned("cleanup") => Held(id)' = Held(id)]_vars

\* the sweep ran over a directory with a corrupt task_info.json, which is
\* still there, and a task older than the expiry age, which is gone
C16_Witness ==
  /\ ret.op = "cleanup" /\ calls = 2 /\ issued = 2
  /\ base[1].exists /\ base[1].info = Garbage
  /\ ~base[2].exists /\ tasks = <<>>

\* the uploaded files that have an allowed extension and at most 1 MiB
Passing(files) ==
  SelectSeq(files, LAMBDA f : f.suffix \in {".json", ".txt", ".toml", ".cfg", ".lock"}
                                /\ f.size <= 1048576)

\* C19: a create request none of whose files passes the extension and size
\* checks is answered 400, and no record and no directory come of it
C19_NoValidFileRejected ==
  [][(Returned("create") /\ Passing(ret'.uploaded) = <<>>)
       => (ret'.code = 400 /\ tasks' = tasks /\ base' = base /\ issued' = issued)]_vars

\* C20: create returns a task with a new id, status Created and the accepted
\* filenames in upload order; its directory exists with the uploads in it and
\* the subdirectories of the ecosystems, and the persisted record equals the
\* returned one
C20_CreateContract ==
  [][\A id \in Ids :
       (Returned("create") /\ ret'.code = 200 /\ ret'.task[1].task_id = id)
         => /\ id > issued
            /\ ~base[id].exists /\ Position(tasks, id) = 0
            /\ ret'.task[1].status = Created
            /\ ret'.task[1].files
                  = [k \in 1..Len(Passing(ret'.uploaded)) |-> Passing(ret'.uploaded)[k].name]
            /\ ret'.task[1].files # <<>>
            /\ base'[id].exists
            /\ base'[id].subdirs = {"uploads", "npm-packages", "python-packages"}
            /\ base'[id].uploads = {ret'.task[1].files[k] : k \in 1..Len(ret'.task[1].files)}
            /\ LoadTaskInfo(base'[id].info) = ret'.task
            /\ Held(id)' = ret'.task
            /\ \A o \in Ids \ {id} : base'[o] = base[o] /\ Held(o)' = Held(o)]_vars

\* three files were uploaded, the installer was turned away and the task has
\* the two manifests in their upload order
C20_Witness ==
  /\ ret.op = "create" /\ ret.code = 200
  /\ Len(ret.uploaded) = 3
  /\ ret.task[1].files = <<"requirements.txt", "package.json">>
  /\ ret.task[1].status = Created
  /\ base[ret.task[1].task_id].uploads = {"requirements.txt", "package.json"}

\* C24: completed_at is unset while the task is not terminal and set once it
\* is Completed or Failed
C24_CompletedAtOnTerminal ==
  TaskFound => ((task.completed_at # "None") <=> (task.status \in {Completed, Failed}))

\* C25: error is set only on a Failed task, archive_url and archive_size only
\* on a Completed one
C25_ErrorArchiveExclusive ==
  TaskFound => /\ task.error # "None" => task.status = Failed
               /\ (task.archive_url # "None" \/ task.archive_size # 0) => task.status = Completed

\* positions of a coroutine inside NPMDownloader.download_packages and inside
\* PyPIDownloader.download_packages
InNpmDownload == {"d_npm", "d_npm_stage", "d_npm_install", "d_npm_loop"}
InPypiDownload == {"d_pypi", "d_pypi_spawn", "d_pypi_out"}

\* tr comes back from a pipeline to the orchestrator, which calls update_task
PipelineReturned(tr) ==
  /\ trig[tr].pc \in InNpmDownload \cup InPypiDownload
  /\ trig'[tr].pc \notin {trig[tr].pc, "except"}
  /\ ~(trig[tr].pc \in InNpmDownload /\ trig'[tr].pc \in InNpmDownload)
  /\ ~(trig[tr].pc \in InPypiDownload /\ trig'[tr].pc \in InPypiDownload)

\* C26: while a pipeline runs, the progress counters of the record change only
\* at the orchestrator's update_task calls
C26_ProgressOnlyByUpdate ==
  [][(TaskFound' /\ (task'.npm_progress # task.npm_progress
                     \/ task'.pypi_progress # task.pypi_progress))
       => \E tr \in Trig : PipelineReturned(tr)]_vars

\* C27: the completed and failed counters of both progress records never
\* decrease from one state of the task to the next
C27_CountersMonotone ==
  [][TaskFound' => /\ task'.npm_progress.completed >= task.npm_progress.completed
                   /\ task'.npm_progress.failed >= task.npm_progress.failed
                   /\ task'.pypi_progress.completed >= task.pypi_progress.completed
                   /\ task'.pypi_progress.failed >= task.pypi_progress.failed]_vars

\* two triggers were accepted and both counters of the npm progress have grown
C27_Witness ==
  /\ TaskFound /\ overlapped
  /\ task.npm_progress.completed > 0
  /\ task.npm_progress.failed > 0

\* C28: with the manifest of an enabled ecosystem absent, resolve returns an
\* empty result, neither raising nor starting an external tool, and the parse
\* trigger goes on to set the task Parsed with that dependency field empty
C28_AbsentManifestTolerated ==
  [][\A tr \in Trig :
       (trig[tr].kind = "parse" /\ trig'[tr] # trig[tr])
         => /\ (trig[tr].pc = "p_npm" /\ ~disk.pkg)
                 => /\ trig'[tr].pc \in {"p_pypi", "p_parsed"}
                    /\ ~trig'[tr].raised
                    /\ TaskFound' => task'.npm_dependencies = "None"
            /\ (trig[tr].pc = "p_pypi" /\ disk.req = 0)
                 => /\ trig'[tr].pc = "p_parsed"
                    /\ ~trig'[tr].raised
                    /\ TaskFound' => task'.pypi_dependencies = 0
            /\ trig[tr].pc = "p_parsed"
                 => /\ trig'[tr].pc = "done"
                    /\ TaskFound' => task'.status = Parsed]_vars

\* both ecosystems are enabled, neither manifest was uploaded, and the parse
\* trigger has ended with the task Parsed and both dependency fields empty
C28_Witness ==
  /\ options.npm /\ options.pypi
  /\ disk.dir /\ ~disk.pkg /\ disk.req = 0
  /\ \E tr \in Trig : trig[tr].kind = "parse" /\ trig[tr].pc = "done" /\ ~trig[tr].raised
                        /\ trig[tr].written = <<Parsing, Parsed>>
  /\ task.status = Parsed
  /\ task.npm_dependencies = "None" /\ task.pypi_dependencies = 0

\* C30: when a coroutine leaves the npm download step, by return or by raise,
\* temp-npm-install is gone
C30_StagingRemoved ==
  [][\A tr \in Trig :
       (trig[tr].pc \in {"d_npm_stage", "d_npm_install", "d_npm_loop"}
          /\ trig'[tr].pc \notin {"d_npm_stage", "d_npm_install", "d_npm_loop"})
         => ~disk'.tmp]_vars

\* C21: when a broadcast ends, every websocket that was in the list when it
\* began and still is has been sent the event, every websocket whose send
\* raised is out of the list, and a broadcast without listeners does nothing
C21_PublishIsolatesFailures ==
  [][/\ \A p \in Trig :
          (pub[p].pc = "send" /\ pub'[p].pc = "idle")
            => /\ \A c \in pub[p].audience \cap Members(conns') :
                    \E k \in 1..Len(inbox'[c]) : inbox'[c][k] = pub[p].ev
               /\ \A k \in 1..Len(pub[p].disconnected) : pub[p].disconnected[k] \notin Members(conns')
     /\ (published' # published /\ conns = <<>>)
          => UNCHANGED <<conns, sock, pub, inbox>>]_vars

\* C22: every websocket is sent the events in the order of their broadcast calls
C22_DeliveredInPublishOrder ==
  \A c \in Conn : \A i, j \in 1..Len(inbox[c]) : i < j => inbox[c][i] < inbox[c][j]

\* C23: no more than MAX_CONCURRENT_TASKS tasks have a trigger in flight
C23_AdmissionLimit ==
  Cardinality({id \in TaskIds : work[id].busy # "none"}) <= MAX_CONCURRENT_TASKS

\* C29: the directory of a task that has no record does not stay on disk forever
C29_DeletedDirEventuallyGone == []<>(TaskFound \/ ~disk.dir)

\* C31: a resolve in which an external tool (the lock-file generation or the
\* dependency listing) exited non-zero has raised, and its parse trigger ends
\* with the task Failed
C31_ToolFailureRaises ==
  \A tr \in Trig :
    trig[tr].toolFailed
      => /\ trig[tr].raised
         /\ (trig[tr].pc = "done" /\ TaskFound /\ ~overlapped) => task.status = Failed

\* the requirement lines of the scenario: flask==3.0.0, a comment, requests>=2.31.0
ScenarioFile == <<FlaskLine, CommentLine, RequestsLine>>

\* the lines that are neither blank nor a comment
Requirement(line) == Strip(line) # <<>> /\ Head(Strip(line)) # "#"

\* C32: parsing yields one PackageInfo per line that is neither blank nor a
\* comment, in file order, and for the scenario file exactly flask with
\* version 3.0.0 and requests with version >=2.31.0
C32_RequirementsParsed ==
  reqPc = "returned"
    => /\ Len(packages) = Len(SelectSeq(reqFile, Requirement))
       /\ reqFile = ScenarioFile
            => packages = <<PackageInfo(<<"f", "l", "a", "s", "k">>, <<"3", ".", "0", ".", "0">>),
                            PackageInfo(<<"r", "e", "q", "u", "e", "s", "t", "s">>,
                                        <<">", "=", "2", ".", "3", "1", ".", "0">>)>>

\* a download trigger of the task went through to its update to Completed
ReachedCompleted ==
  \E tr \in Trig : trig[tr].kind = "download" /\ trig[tr].pc = "done" /\ ~trig[tr].raised
                     /\ trig[tr].written # <<>>
                     /\ trig[tr].written[Len(trig[tr].written)] = Completed

\* C33: the archive is served only for a Completed task whose archive file
\* exists and refused in every other status, and a task that a download
\* trigger brought to Completed has its archive served until it is deleted
C33_ArchiveServedWhileCompleted ==
  [][ArchiveRequest
       => /\ resp' = 200 => (TaskFound /\ task.status = Completed /\ disk.archive)
          /\ (TaskFound /\ task.status # Completed) => resp' = 400
          /\ (TaskFound /\ ReachedCompleted) => resp' = 200]_vars

\* C34: after a crash inside the save of an update, task_info.json holds the
\* complete previous record or the complete new one, so that the task is
\* still recovered from it after the restart
C34_CrashKeepsRecord ==
  [][Returned("crash")
       => \A id \in Ids :
            (ret'.id = id /\ ret'.old # None)
              => /\ base'[id].exists
                 /\ LoadTaskInfo(base'[id].info) \in {ret'.old, ret'.new}]_vars

\* no parse trigger was accepted for the task
ParseSkipped == \A tr \in Trig : trig[tr].kind # "parse"

\* C35: no step of a download trigger writes the npm dependency tree or the
\* PyPI package list, and a task for which no parse trigger was accepted has
\* both of them empty, also once it is Completed
C35_DownloadWithoutResolve ==
  /\ [][\A tr \in Trig :
          (trig[tr].kind = "download" /\ trig'[tr] # trig[tr] /\ TaskFound')
            => /\ task'.npm_dependencies = task.npm_dependencies
               /\ task'.pypi_dependencies = task.pypi_dependencies]_vars
  /\ []((ParseSkipped /\ TaskFound)
          => (task.npm_dependencies = "None" /\ task.pypi_dependencies = 0))

\* a download trigger accepted from Created went through with manifests of
\* both ecosystems uploaded, no parse trigger was accepted, and the Completed
\* task has neither a tree nor a package list
C35_Witness ==
  /\ ParseSkipped /\ TaskFound
  /\ disk.pkg /\ disk.req > 0 /\ disk.lines > 0
  /\ \E tr \in Trig : trig[tr].kind = "download" /\ trig[tr].pc = "done"
                        /\ trig[tr].written = <<Downloading, Packing, Completed>>
  /\ task.status = Completed
  /\ task.npm_dependencies = "None" /\ task.pypi_dependencies = 0

\* the number of times websocket c was sent event ev
Deliveries(box, ev) == Cardinality({k \in 1..Len(box) : box[k] = ev})

\* C36: when a broadcast ends, every websocket that was in the list when it
\* began, is still in it and is open has been sent the event exactly once,
\* also when another websocket was disconnected while the broadcast was
\* suspended in its loop
C36_UnsubscribeKeepsDelivery ==
  [][\A p \in Trig :
       (pub[p].pc = "send" /\ pub'[p].pc = "idle")
         => \A c \in pub[p].audience \cap Members(conns) :
              sock[c] = "open" => Deliveries(inbox'[c], pub[p].ev) = 1]_vars

\* C37: once the task has no record (delete has returned), no step brings one
\* back: the updates of a trigger still in flight find nothing, change nothing
\* and write no task_info.json, and get keeps answering 404
C37_NoResurrection ==
  [][~TaskFound
       => /\ ~TaskFound' /\ ~cached' /\ ~disk'.info
          /\ task' = task
          /\ \A tr \in Trig : trig'[tr].written = trig[tr].written
          /\ GetRequest => resp' = 404]_vars

\* the task was deleted while its download trigger was in flight; the trigger
\* went on through its later updates, which found no record, to its end, and
\* the directory it re-created holds no task_info.json
C37_Witness ==
  /\ ~TaskFound /\ disk.dir /\ ~disk.info
  /\ \E tr \in Trig : /\ trig[tr].kind = "download" /\ trig[tr].pc = "done"
                      /\ trig[tr].written = <<Downloading>>
                      /\ trig[tr].lastEvent = SuccessEvent

\* C38: a task that is in Parsing, Downloading or Packing eventually is in
\* Parsed, Completed or Failed, also when the process restarts while the
\* trigger runs (the task is not deleted and the tools terminate)
C38_TriggerEventuallyEnds ==
  (TaskFound /\ task.status \in {Parsing, Downloading, Packing})
    ~> (TaskFound /\ task.status \in {Parsed, Completed, Failed})

\* C39: no trigger that has published an error event goes on to publish the
\* complete event after writing Parsed or Completed
C39_ErrorOnlyWhenFailed ==
  \A tr \in Trig :
    trig[tr].erred
      => ~(/\ trig[tr].lastEvent = SuccessEvent
           /\ trig[tr].written # <<>>
           /\ trig[tr].written[Len(trig[tr].written)] \in {Parsed, Completed})

\* the ids whose task_info.json on disk loads as a record
Persisted == {id \in Ids : LoadTaskInfo(base[id].info) # None}

\* C40: list reports as total the number of tasks with a persisted record, and
\* with a page that takes them all it returns every one of them, also right
\* after the process has started and before any task was fetched by its id
C40_ListAfterRestart ==
  [][Returned("list")
       => /\ ret'.total = Cardinality(Persisted)
          /\ (ret'.page = 1 /\ ret'.size >= Cardinality(Persisted))
               => \A id \in Persisted : \E k \in 1..Len(ret'.tasks) : ret'.tasks[k].task_id = id]_vars

====
